---------------------------- MODULE Spec2Model ----------------------------
(***************************************************************************)
(* TiddlyProxy: an authenticating reverse proxy.                           *)
(*                                                                         *)
(* Strings and byte buffers are sequences of byte values (0..255), so the  *)
(* conversions of the program (base64, JSON, cookie parsing, cookie        *)
(* formatting) are computed on bytes, as the program computes them.        *)
(***************************************************************************)
EXTENDS Integers, Sequences, FiniteSets, TLC

(***************************************************************************)
(* Bounds of the model.                                                    *)
(***************************************************************************)
\* the secret is SecretLen bytes long (32 in the program)
SecretLen == 2
\* the clock runs from 1 to MaxTime
MaxTime == 2
\* a composed Cookie header holds up to MaxEntries entries
MaxEntries == 3
\* up to MaxHandlers requests are handled at a time
MaxHandlers == 2

(***************************************************************************)
(* Characters and strings                                                  *)
(***************************************************************************)
Printable ==
  << " ", "!", "\"", "#", "$", "%", "&", "'", "(", ")", "*", "+", ",", "-",
     ".", "/", "0", "1", "2", "3", "4", "5", "6", "7", "8", "9", ":", ";",
     "<", "=", ">", "?", "@", "A", "B", "C", "D", "E", "F", "G", "H", "I",
     "J", "K", "L", "M", "N", "O", "P", "Q", "R", "S", "T", "U", "V", "W",
     "X", "Y", "Z", "[", "\\", "]", "^", "_", "grave", "a", "b", "c", "d", "e",
     "f", "g", "h", "i", "j", "k", "l", "m", "n", "o", "p", "q", "r", "s",
     "t", "u", "v", "w", "x", "y", "z", "{", "|", "}", "~" >>

\* the ASCII code of a one-character string (Printable[i] is the character of
\* code 31 + i; the grave accent, which a TLA+ string cannot hold, is named)
Ord == [c \in {Printable[i] : i \in 1..Len(Printable)} |->
          31 + (CHOOSE i \in 1..Len(Printable) : Printable[i] = c)]

\* the bytes of a string given character by character
S(t) == [i \in 1..Len(t) |-> Ord[t[i]]]

Byte == 0..255

SliceOf(s, a, b) == [i \in 1..(b - a + 1) |-> s[a + i - 1]]

\* str::find of one character: the first index holding c, 0 when absent
Find(s, c) ==
  IF \E i \in 1..Len(s) : s[i] = c
    THEN CHOOSE i \in 1..Len(s) : s[i] = c /\ \A j \in 1..(i - 1) : s[j] # c
    ELSE 0

EndsWith(s, c) == Len(s) > 0 /\ s[Len(s)] = c

RECURSIVE Pow(_, _)
Pow(b, e) == IF e = 0 THEN 1 ELSE b * Pow(b, e - 1)

RECURSIVE Digits(_)
\* the decimal digits of a natural number (u64 Display)
Digits(n) ==
  IF n < 10 THEN << 48 + n >> ELSE Append(Digits(n \div 10), 48 + (n % 10))

(***************************************************************************)
(* base64, standard alphabet, no padding  (auth.rs: encode_config_buf,     *)
(* decode_config with base64::Config::new(CharacterSet::Standard, false))  *)
(***************************************************************************)
B64Alphabet ==
  S(<< "A", "B", "C", "D", "E", "F", "G", "H", "I", "J", "K", "L", "M",
       "N", "O", "P", "Q", "R", "S", "T", "U", "V", "W", "X", "Y", "Z",
       "a", "b", "c", "d", "e", "f", "g", "h", "i", "j", "k", "l", "m",
       "n", "o", "p", "q", "r", "s", "t", "u", "v", "w", "x", "y", "z",
       "0", "1", "2", "3", "4", "5", "6", "7", "8", "9", "+", "/" >>)

\* the sextet of a character, 64 for a character outside the alphabet
B64Value == [c \in Byte |->
               IF \E i \in 1..64 : B64Alphabet[i] = c
                 THEN (CHOOSE i \in 1..64 : B64Alphabet[i] = c) - 1
                 ELSE 64]

ByteAt(s, i) == IF i <= Len(s) THEN s[i] ELSE 0

\* encode_config_buf: 3 bytes to 4 characters, the last group left short
b64_encode(bytes) ==
  [k \in 1..((Len(bytes) * 4 + 2) \div 3) |->
     LET bit == 6 * (k - 1)
         q   == (bit \div 8) + 1
         r   == bit % 8
         w   == ByteAt(bytes, q) * 256 + ByteAt(bytes, q + 1)
     IN  B64Alphabet[((w \div Pow(2, 10 - r)) % 64) + 1]]

\* decode_config: an error for a character outside the alphabet, for a
\* length of 1 modulo 4, and for non-zero bits after the last whole byte
\* (padded input is not among the inputs of this model)
b64_decode(chars) ==
  LET m    == Len(chars)
      n    == (m * 6) \div 8
      left == m * 6 - n * 8
      sx(i) == IF i <= m THEN B64Value[chars[i]] ELSE 0
  IN  IF \/ m % 4 = 1
         \/ \E i \in 1..m : B64Value[chars[i]] = 64
         \/ (m > 0 /\ sx(m) % Pow(2, left) # 0)
        THEN [ok |-> FALSE, bytes |-> << >>]
        ELSE [ok |-> TRUE,
              bytes |-> [j \in 1..n |->
                           LET bit == 8 * (j - 1)
                               q   == (bit \div 6) + 1
                               r   == bit % 6
                               w   == sx(q) * 64 + sx(q + 1)
                           IN  (w \div Pow(2, 4 - r)) % 256]]

(***************************************************************************)
(* SHA-256.  The digest is modelled as collision-free: a byte-wise         *)
(* permutation of the message, so that two messages have the same digest   *)
(* only if they are the same message.  (The digest is as long as the       *)
(* message rather than 32 bytes.)                                          *)
(***************************************************************************)
Sha256(msg) == [i \in 1..Len(msg) |-> (msg[i] * 167 + 13) % 256]

\* the secrets a configuration can hold
Secrets == [1..SecretLen -> {Ord["0"], Ord["1"]}]

\* a mutant of sign_token: the secret is left out of the signed message
sign_token_nosecret(bytes, secret) == Sha256(bytes \o S(<< "." >>))

\* fn sign_token: SHA-256 over bytes || "." || secret
sign_token(bytes, secret) == Sha256(bytes \o S(<< "." >>) \o secret)

(***************************************************************************)
(* JSON  (serde_json::to_string and serde_json::from_str::<Token>, where   *)
(* struct Token { expiration: u64 } derives Serialize and Deserialize).    *)
(* The reader covers objects whose values are unsigned integers or strings *)
(* without escapes, and the one-element array form of a struct.            *)
(***************************************************************************)
\* serde_json::to_string(&Token)
to_json(token) ==
  S(<< "{", "\"", "e", "x", "p", "i", "r", "a", "t", "i", "o", "n", "\"", ":" >>)
    \o Digits(token.expiration) \o S(<< "}" >>)

IsWs(c) == c \in {32, 9, 10, 13}
IsDigit(c) == c \in 48..57

\* the first index at or after i that holds no whitespace (Len(s) + 1 at the end)
SkipWs(s, i) ==
  IF \E j \in i..Len(s) : ~IsWs(s[j])
    THEN CHOOSE j \in i..Len(s) : ~IsWs(s[j]) /\ \A k \in i..(j - 1) : IsWs(s[k])
    ELSE Len(s) + 1

RECURSIVE NumberOf(_)
NumberOf(ds) ==
  IF Len(ds) = 0 THEN 0
  ELSE NumberOf(SubSeq(ds, 1, Len(ds) - 1)) * 10 + (ds[Len(ds)] - 48)

JsonFail == [ok |-> FALSE, kind |-> "none", val |-> << >>, num |-> 0, next |-> 0]

\* an unsigned integer at s[i]: digits, no leading zero, no fraction or exponent
JsonNumber(s, i) ==
  LET j == IF \E k \in i..Len(s) : ~IsDigit(s[k])
             THEN CHOOSE k \in i..Len(s) :
                    ~IsDigit(s[k]) /\ \A l \in i..(k - 1) : IsDigit(s[l])
             ELSE Len(s) + 1
  IN  IF j = i \/ (s[i] = 48 /\ j > i + 1)
           \/ (j <= Len(s) /\ s[j] \in {Ord["."], Ord["e"], Ord["E"]})
        THEN JsonFail
        ELSE [ok |-> TRUE, kind |-> "num", val |-> << >>,
              num |-> NumberOf(SliceOf(s, i, j - 1)), next |-> j]

\* a string at s[i] = '"', up to the next '"'
JsonString(s, i) ==
  LET rest == SliceOf(s, i + 1, Len(s))
      q    == Find(rest, Ord["\""])
  IN  IF q = 0 \/ \E k \in 1..(q - 1) : rest[k] = Ord["\\"] \/ rest[k] < 32
        THEN JsonFail
        ELSE [ok |-> TRUE, kind |-> "str", val |-> SliceOf(rest, 1, q - 1),
              num |-> 0, next |-> i + q + 1]

JsonValue(s, i) ==
  IF i > Len(s) THEN JsonFail
  ELSE IF s[i] = Ord["\""] THEN JsonString(s, i)
  ELSE JsonNumber(s, i)

RECURSIVE JsonMembers(_, _, _)
\* the members of an object from the key at s[i] on, up to the closing brace
JsonMembers(s, i, fields) ==
  IF i > Len(s) \/ s[i] # Ord["\""] THEN [ok |-> FALSE, fields |-> << >>, next |-> 0]
  ELSE
    LET key   == JsonString(s, i)
        colon == SkipWs(s, key.next)
    IN  IF ~key.ok \/ colon > Len(s) \/ s[colon] # Ord[":"]
          THEN [ok |-> FALSE, fields |-> << >>, next |-> 0]
          ELSE
            LET v   == JsonValue(s, SkipWs(s, colon + 1))
                sep == SkipWs(s, v.next)
                all == Append(fields, [key |-> key.val, kind |-> v.kind, num |-> v.num])
            IN  IF ~v.ok \/ sep > Len(s) THEN [ok |-> FALSE, fields |-> << >>, next |-> 0]
                ELSE IF s[sep] = Ord["}"] THEN [ok |-> TRUE, fields |-> all, next |-> sep + 1]
                ELSE IF s[sep] = Ord[","] THEN JsonMembers(s, SkipWs(s, sep + 1), all)
                ELSE [ok |-> FALSE, fields |-> << >>, next |-> 0]

JsonObject(s, i) ==
  LET j == SkipWs(s, i + 1)
  IN  IF j <= Len(s) /\ s[j] = Ord["}"]
        THEN [ok |-> TRUE, fields |-> << >>, next |-> j + 1]
        ELSE JsonMembers(s, j, << >>)

ExpirationKey == S(<< "e", "x", "p", "i", "r", "a", "t", "i", "o", "n" >>)

TokenFail == [ok |-> FALSE, expiration |-> 0]

\* a mutant of from_json: fields the struct does not name are an error
from_json_deny_unknown(s) ==
  LET i == SkipWs(s, 1)
      o == JsonObject(s, i)
  IN  IF i <= Len(s) /\ s[i] = Ord["{"] /\ o.ok /\ SkipWs(s, o.next) > Len(s)
         /\ Len(o.fields) = 1 /\ o.fields[1].key = ExpirationKey
         /\ o.fields[1].kind = "num"
        THEN [ok |-> TRUE, expiration |-> o.fields[1].num]
        ELSE TokenFail

\* serde_json::from_str::<Token>: a map with exactly one `expiration` holding an
\* unsigned integer (other keys are ignored), or the sequence of the struct's
\* fields; nothing but whitespace may follow
from_json(s) ==
  LET i == SkipWs(s, 1)
  IN  IF i > Len(s) THEN TokenFail
      ELSE IF s[i] = Ord["{"] THEN
        LET o    == JsonObject(s, i)
            exps == {k \in 1..Len(o.fields) : o.fields[k].key = ExpirationKey}
        IN  IF o.ok /\ SkipWs(s, o.next) > Len(s) /\ Cardinality(exps) = 1
               /\ \A k \in exps : o.fields[k].kind = "num"
              THEN [ok |-> TRUE, expiration |-> o.fields[CHOOSE k \in exps : TRUE].num]
              ELSE TokenFail
      ELSE IF s[i] = Ord["["] THEN
        LET v     == JsonNumber(s, SkipWs(s, i + 1))
            close == SkipWs(s, v.next)
        IN  IF v.ok /\ close <= Len(s) /\ s[close] = Ord["]"]
               /\ SkipWs(s, close + 1) > Len(s)
              THEN [ok |-> TRUE, expiration |-> v.num]
              ELSE TokenFail
      ELSE TokenFail

RECURSIVE Utf8From(_, _)
\* String::from_utf8: whether s[i..] is well-formed UTF-8
Utf8From(s, i) ==
  IF i > Len(s) THEN TRUE
  ELSE
    LET b == s[i]
        n == IF b < 128 THEN 0
             ELSE IF b \in 194..223 THEN 1
             ELSE IF b \in 224..239 THEN 2
             ELSE IF b \in 240..244 THEN 3
             ELSE 4
        lo == IF b = 224 THEN 160 ELSE IF b = 240 THEN 144 ELSE 128
        hi == IF b = 237 THEN 159 ELSE IF b = 244 THEN 143 ELSE 191
    IN  /\ n < 4
        /\ i + n <= Len(s)
        /\ n >= 1 => s[i + 1] \in lo..hi
        /\ \A k \in 2..n : s[i + k] \in 128..191
        /\ Utf8From(s, i + n + 1)

is_utf8(s) == Utf8From(s, 1)

(***************************************************************************)
(* The token codec  (auth.rs)                                              *)
(***************************************************************************)
\* Token::new
Token(expiration) == [expiration |-> expiration]

\* Token::generate: base64(json) "." base64(signature of json)
generate(token, secret) ==
  LET json      == to_json(token)
      signature == sign_token(json, secret)
  IN  b64_encode(json) \o S(<< "." >>) \o b64_encode(signature)

\* a mutant of verify: a token is accepted up to and including its expiration
verify_inclusive(value, secret, time) ==
  LET pos       == Find(value, Ord["."])
      token     == b64_decode(SliceOf(value, 1, pos - 1))
      signature == b64_decode(SliceOf(value, pos + 1, Len(value)))
      parsed    == from_json(token.bytes)
  IN  IF pos = 0 THEN "FormatError"
      ELSE IF ~token.ok THEN "FormatError"
      ELSE IF ~signature.ok THEN "FormatError"
      ELSE IF signature.bytes # sign_token(token.bytes, secret) THEN "SignatureError"
      ELSE IF ~is_utf8(token.bytes) THEN "FormatError"
      ELSE IF ~parsed.ok THEN "FormatError"
      ELSE IF parsed.expiration >= time THEN "Ok"
      ELSE "ExpirationError"

\* a mutant of verify: the payload is parsed before the signature is compared
verify_parse_first(value, secret, time) ==
  LET pos       == Find(value, Ord["."])
      token     == b64_decode(SliceOf(value, 1, pos - 1))
      signature == b64_decode(SliceOf(value, pos + 1, Len(value)))
      parsed    == from_json(token.bytes)
  IN  IF pos = 0 THEN "FormatError"
      ELSE IF ~token.ok THEN "FormatError"
      ELSE IF ~signature.ok THEN "FormatError"
      ELSE IF ~is_utf8(token.bytes) THEN "FormatError"
      ELSE IF ~parsed.ok THEN "FormatError"
      ELSE IF signature.bytes # sign_token(token.bytes, secret) THEN "SignatureError"
      ELSE IF parsed.expiration > time THEN "Ok"
      ELSE "ExpirationError"

\* Token::verify: the first failing check decides the error
verify(value, secret, time) ==
  LET pos       == Find(value, Ord["."])
      token     == b64_decode(SliceOf(value, 1, pos - 1))
      signature == b64_decode(SliceOf(value, pos + 1, Len(value)))
      parsed    == from_json(token.bytes)
  IN  IF pos = 0 THEN "FormatError"
      ELSE IF ~token.ok THEN "FormatError"
      ELSE IF ~signature.ok THEN "FormatError"
      ELSE IF signature.bytes # sign_token(token.bytes, secret) THEN "SignatureError"
      ELSE IF ~is_utf8(token.bytes) THEN "FormatError"
      ELSE IF ~parsed.ok THEN "FormatError"
      ELSE IF parsed.expiration > time THEN "Ok"
      ELSE "ExpirationError"

(***************************************************************************)
(* Options, cookies and dates                                              *)
(***************************************************************************)
None == [some |-> FALSE, val |-> << >>]
Some(v) == [some |-> TRUE, val |-> v]

RECURSIVE Split(_, _)
\* str::split on one character: the pieces between its occurrences
Split(s, c) ==
  LET i == Find(s, c)
  IN  IF i = 0 THEN << s >>
      ELSE << SliceOf(s, 1, i - 1) >> \o Split(SliceOf(s, i + 1, Len(s)), c)

IsSpace(c) == c \in {32, 9, 10, 11, 12, 13}

\* str::trim
Trim(s) ==
  IF \A i \in 1..Len(s) : IsSpace(s[i]) THEN << >>
  ELSE LET a == CHOOSE i \in 1..Len(s) :
                  ~IsSpace(s[i]) /\ \A j \in 1..(i - 1) : IsSpace(s[j])
           b == CHOOSE i \in 1..Len(s) :
                  ~IsSpace(s[i]) /\ \A j \in (i + 1)..Len(s) : IsSpace(s[j])
       IN  SliceOf(s, a, b)

\* Cookie::parse of one piece of the header: name "=" value, both trimmed;
\* an error without "=" or with an empty name
cookie_parse(piece) ==
  LET i == Find(piece, Ord["="])
  IN  IF i = 0 \/ Trim(SliceOf(piece, 1, i - 1)) = << >>
        THEN [ok |-> FALSE, name |-> << >>, value |-> << >>]
        ELSE [ok |-> TRUE,
              name |-> Trim(SliceOf(piece, 1, i - 1)),
              value |-> Trim(SliceOf(piece, i + 1, Len(piece)))]

\* HeaderValue::to_str: only visible ASCII (and tab) is a string
header_to_str(bytes) ==
  IF \A i \in 1..Len(bytes) : bytes[i] \in 32..126 \/ bytes[i] = 9
    THEN Some(bytes) ELSE None

ProxyAuth == S(<< "p", "r", "o", "x", "y", "_", "a", "u", "t", "h" >>)

TwoDigits(n) == << 48 + (n \div 10), 48 + (n % 10) >>

DayNames ==
  << S(<< "S", "u", "n" >>), S(<< "M", "o", "n" >>), S(<< "T", "u", "e" >>),
     S(<< "W", "e", "d" >>), S(<< "T", "h", "u" >>), S(<< "F", "r", "i" >>),
     S(<< "S", "a", "t" >>) >>

MonthNames ==
  << S(<< "J", "a", "n" >>), S(<< "F", "e", "b" >>), S(<< "M", "a", "r" >>),
     S(<< "A", "p", "r" >>), S(<< "M", "a", "y" >>), S(<< "J", "u", "n" >>),
     S(<< "J", "u", "l" >>), S(<< "A", "u", "g" >>), S(<< "S", "e", "p" >>),
     S(<< "O", "c", "t" >>), S(<< "N", "o", "v" >>), S(<< "D", "e", "c" >>) >>

\* the calendar date of a day count since 1970-01-01
CivilFromDays(days) ==
  LET z   == days + 719468
      era == z \div 146097
      doe == z - era * 146097
      yoe == (doe - (doe \div 1460) + (doe \div 36524) - (doe \div 146096)) \div 365
      doy == doe - (365 * yoe + (yoe \div 4) - (yoe \div 100))
      mp  == (5 * doy + 2) \div 153
      d   == doy - ((153 * mp + 2) \div 5) + 1
      m   == IF mp < 10 THEN mp + 3 ELSE mp - 9
  IN  [year |-> yoe + era * 400 + (IF m <= 2 THEN 1 ELSE 0), month |-> m, day |-> d]

\* the Expires attribute of a cookie: "%a, %d %b %Y %H:%M:%S GMT" of an
\* instant given in seconds since the epoch
http_date(t) ==
  LET days == t \div 86400
      sod  == t % 86400
      date == CivilFromDays(days)
  IN  DayNames[((days + 4) % 7) + 1] \o S(<< ",", " " >>) \o TwoDigits(date.day)
        \o S(<< " " >>) \o MonthNames[date.month] \o S(<< " " >>) \o Digits(date.year)
        \o S(<< " " >>) \o TwoDigits(sod \div 3600) \o S(<< ":" >>)
        \o TwoDigits((sod % 3600) \div 60) \o S(<< ":" >>) \o TwoDigits(sod % 60)
        \o S(<< " ", "G", "M", "T" >>)

\* Cookie::build(name, value).path("/").http_only(true).expires(t).finish()
\* and its to_string()
cookie_to_string(name, value, expires) ==
  name \o S(<< "=" >>) \o value
    \o S(<< ";", " ", "H", "t", "t", "p", "O", "n", "l", "y" >>)
    \o S(<< ";", " ", "P", "a", "t", "h", "=", "/" >>)
    \o S(<< ";", " ", "E", "x", "p", "i", "r", "e", "s", "=" >>) \o http_date(expires)

(***************************************************************************)
(* The credential store  (credentials.rs, config.rs)                       *)
(***************************************************************************)
\* fn generate_hash: SHA-256 over salt || ":" || password
generate_hash(salt, password) == Sha256(salt \o S(<< ":" >>) \o password)

\* ProxyConfig::credentials_for: users.get(&name.map(String::from)); the
\* table is a function from Option<String> keys to UserCredentials
credentials_for(users, name) ==
  IF name \in DOMAIN users THEN Some(users[name]) ELSE None

\* a mutant of can_login: a user that is not in the table may log in
can_login_unknown_ok(users, name, password) ==
  LET credentials == credentials_for(users, name)
  IN  IF ~credentials.some THEN TRUE
      ELSE credentials.val.password_hash = generate_hash(credentials.val.salt, password)

\* CredentialsStore::can_login
can_login(users, name, password) ==
  LET credentials == credentials_for(users, name)
  IN  IF ~credentials.some THEN FALSE
      ELSE credentials.val.password_hash = generate_hash(credentials.val.salt, password)

(***************************************************************************)
(* The login form  (service.rs: extract_form_fields, over                  *)
(* url::form_urlencoded::parse)                                            *)
(***************************************************************************)
HexValue(c) ==
  IF c \in 48..57 THEN c - 48
  ELSE IF c \in 65..70 THEN c - 55
  ELSE IF c \in 97..102 THEN c - 87
  ELSE 16

RECURSIVE PercentDecode(_)
\* "+" is a space, "%XY" the byte XY, a "%" not followed by two hex digits
\* stands for itself
PercentDecode(s) ==
  IF Len(s) = 0 THEN << >>
  ELSE IF s[1] = Ord["+"] THEN << 32 >> \o PercentDecode(Tail(s))
  ELSE IF s[1] = Ord["%"] /\ Len(s) >= 3 /\ HexValue(s[2]) < 16 /\ HexValue(s[3]) < 16
    THEN << HexValue(s[2]) * 16 + HexValue(s[3]) >> \o PercentDecode(SliceOf(s, 4, Len(s)))
  ELSE << s[1] >> \o PercentDecode(Tail(s))

\* String::from_utf8_lossy: well-formed text is kept; otherwise U+FFFD
\* stands in for what is not text (here: for each byte above 127)
Utf8Lossy(s) ==
  IF is_utf8(s) THEN s
  ELSE LET cut(b) == IF b < 128 THEN << b >> ELSE << 239, 191, 189 >>
           RECURSIVE go(_)
           go(r) == IF Len(r) = 0 THEN << >> ELSE cut(r[1]) \o go(Tail(r))
       IN  go(s)

RECURSIVE FormPairs(_)
\* form_urlencoded::parse: the "&"-separated pieces that are not empty, each
\* split at its first "=" into a decoded key and a decoded value
FormPairs(pieces) ==
  IF Len(pieces) = 0 THEN << >>
  ELSE IF Len(pieces[1]) = 0 THEN FormPairs(Tail(pieces))
  ELSE LET piece == pieces[1]
           i     == Find(piece, Ord["="])
           k     == IF i = 0 THEN piece ELSE SliceOf(piece, 1, i - 1)
           v     == IF i = 0 THEN << >> ELSE SliceOf(piece, i + 1, Len(piece))
       IN  << [key |-> Utf8Lossy(PercentDecode(k)), value |-> Utf8Lossy(PercentDecode(v))] >>
             \o FormPairs(Tail(pieces))

form_urlencoded_parse(body) == FormPairs(Split(body, Ord["&"]))

UsernameKey == S(<< "u", "s", "e", "r", "n", "a", "m", "e" >>)
PasswordKey == S(<< "p", "a", "s", "s", "w", "o", "r", "d" >>)

RECURSIVE ExtractLoop(_, _, _)
\* the loop of extract_form_fields: other keys are skipped, and the scan
\* stops once both values are there
ExtractLoop(pairs, username, password) ==
  IF Len(pairs) = 0 THEN << username, password >>
  ELSE LET key == pairs[1].key
           u   == IF key = UsernameKey THEN Some(pairs[1].value) ELSE username
           pw  == IF key = PasswordKey THEN Some(pairs[1].value) ELSE password
       IN  IF key # UsernameKey /\ key # PasswordKey
             THEN ExtractLoop(Tail(pairs), username, password)
           ELSE IF u.some /\ pw.some THEN << u, pw >>
           ELSE ExtractLoop(Tail(pairs), u, pw)

\* a mutant of extract_form_fields: the scan goes on to the last pair
extract_form_fields_scan_all(body) ==
  LET RECURSIVE scan(_, _, _)
      scan(pairs, username, password) ==
        IF Len(pairs) = 0 THEN << username, password >>
        ELSE scan(Tail(pairs),
                  IF pairs[1].key = UsernameKey THEN Some(pairs[1].value) ELSE username,
                  IF pairs[1].key = PasswordKey THEN Some(pairs[1].value) ELSE password)
  IN  scan(form_urlencoded_parse(body), None, None)

\* fn extract_form_fields: (username, password)
extract_form_fields(body) == ExtractLoop(form_urlencoded_parse(body), None, None)

(***************************************************************************)
(* The credential list of the configuration  (config.rs)                   *)
(***************************************************************************)
\* fn parse_hex_string::<N>: exactly 2 * n hex digits, two to a byte
parse_hex_string(value, n) ==
  IF Len(value) # 2 * n \/ \E i \in 1..Len(value) : HexValue(value[i]) = 16
    THEN [ok |-> FALSE, bytes |-> << >>]
    ELSE [ok |-> TRUE,
          bytes |-> [i \in 1..n |-> HexValue(value[2 * i - 1]) * 16 + HexValue(value[2 * i])]]

\* a mutant of parse_credentials_part: an empty username is a username
parse_credentials_part_empty_name(value) ==
  LET components == Split(Trim(value), Ord[":"])
      failed     == [ok |-> FALSE, username |-> None,
                     credentials |-> [salt |-> << >>, password_hash |-> << >>]]
  IN  IF Len(components) # 3 THEN failed
      ELSE IF Len(components[2]) < 5 THEN failed
      ELSE IF ~parse_hex_string(components[3], 32).ok THEN failed
      ELSE [ok |-> TRUE,
            username |-> Some(components[1]),
            credentials |-> [salt |-> components[2],
                             password_hash |-> parse_hex_string(components[3], 32).bytes]]

\* fn parse_credentials_part: [<username>]:<salt>:<password hash>
parse_credentials_part(value) ==
  LET components == Split(Trim(value), Ord[":"])
      failed     == [ok |-> FALSE, username |-> None,
                     credentials |-> [salt |-> << >>, password_hash |-> << >>]]
  IN  IF Len(components) # 3 THEN failed
      ELSE IF Len(components[2]) < 5 THEN failed
      ELSE IF ~parse_hex_string(components[3], 32).ok THEN failed
      ELSE [ok |-> TRUE,
            username |-> IF Len(components[1]) > 0 THEN Some(components[1]) ELSE None,
            credentials |-> [salt |-> components[2],
                             password_hash |-> parse_hex_string(components[3], 32).bytes]]

\* a mutant of parse_credentials: a user without a username may stand among
\* other users
parse_credentials_mixed(value) ==
  LET parts  == Split(value, Ord[";"])
      parsed == [i \in 1..Len(parts) |-> parse_credentials_part(parts[i])]
  IN  IF \E i \in 1..Len(parts) : ~parsed[i].ok
        THEN [ok |-> FALSE, users |-> << >>]
        ELSE [ok |-> TRUE,
              users |-> [i \in 1..Len(parts) |->
                           << parsed[i].username, parsed[i].credentials >>]]

\* fn parse_credentials: the parts between ";", in order; the first part that
\* does not parse, or that has no username while there are other parts, is
\* an error
parse_credentials(value) ==
  LET parts  == Split(value, Ord[";"])
      parsed == [i \in 1..Len(parts) |-> parse_credentials_part(parts[i])]
  IN  IF \E i \in 1..Len(parts) :
           ~parsed[i].ok \/ (~parsed[i].username.some /\ Len(parts) > 1)
        THEN [ok |-> FALSE, users |-> << >>]
        ELSE [ok |-> TRUE,
              users |-> [i \in 1..Len(parts) |->
                           << parsed[i].username, parsed[i].credentials >>]]

\* ProxyConfig::from_values, its users: the list is put into the table entry
\* by entry, a later entry replacing an earlier one of the same name
from_values_users(users) ==
  LET list == parse_credentials(users)
  IN  IF ~list.ok THEN [ok |-> FALSE, users |-> << >>]
      ELSE [ok |-> TRUE,
            users |-> [k \in {list.users[i][1] : i \in 1..Len(list.users)} |->
                         list.users[CHOOSE i \in 1..Len(list.users) :
                                      /\ list.users[i][1] = k
                                      /\ \A j \in (i + 1)..Len(list.users) :
                                           list.users[j][1] # k][2]]]

\* uri.parse::<Uri>() and the accessors of the Uri: an origin form ("/" and
\* on), an authority alone, or a scheme, "://", an authority and the rest;
\* path is "" for an authority alone and "/" for a scheme without a path
uri_parse(s) ==
  LET n       == Len(s)
      colon   == Find(s, Ord[":"])
      word(c) == IsDigit(c) \/ c \in 65..90 \/ c \in 97..122 \/ c \in {43, 45, 46}
      schemed == /\ colon > 1 /\ n >= colon + 2
                 /\ s[colon + 1] = Ord["/"] /\ s[colon + 2] = Ord["/"]
                 /\ \A j \in 1..(colon - 1) : word(s[j])
      start   == IF schemed THEN colon + 3 ELSE 1
      ends    == {i \in start..n : s[i] \in {Ord["/"], Ord["?"], Ord["#"]}}
      aend    == IF ends = {} THEN n + 1 ELSE CHOOSE i \in ends : \A j \in ends : i <= j
      auth    == SliceOf(s, start, aend - 1)
      valid   == /\ auth # << >>
                 /\ \A j \in 1..Len(auth) : word(auth[j]) \/ auth[j] = Ord[":"]
                 /\ Cardinality({j \in 1..Len(auth) : auth[j] = Ord[":"]}) <= 1
      rest    == IF n > 0 /\ s[1] = Ord["/"] THEN s ELSE SliceOf(s, aend, n)
      q       == Find(rest, Ord["?"])
      path    == IF q = 0 THEN rest ELSE SliceOf(rest, 1, q - 1)
      query   == IF q = 0 THEN None ELSE Some(SliceOf(rest, q + 1, Len(rest)))
      failed  == [ok |-> FALSE,
                  uri |-> [scheme |-> None, authority |-> None, path |-> << >>,
                           query |-> None]]
  IN  IF n = 0 THEN failed
      ELSE IF s[1] = Ord["/"]
        THEN [ok |-> TRUE,
              uri |-> [scheme |-> None, authority |-> None, path |-> path, query |-> query]]
      ELSE IF ~valid THEN failed
      ELSE IF ~schemed
        THEN IF aend = n + 1
               THEN [ok |-> TRUE,
                     uri |-> [scheme |-> None, authority |-> Some(auth), path |-> << >>,
                              query |-> None]]
               ELSE failed
      ELSE [ok |-> TRUE,
            uri |-> [scheme |-> Some(SliceOf(s, 1, colon - 1)), authority |-> Some(auth),
                     path |-> IF path = << >> THEN S(<< "/" >>) ELSE path,
                     query |-> query]]

\* a mutant of parse_wiki_uri: a query is let through
parse_wiki_uri_with_query(uri) ==
  LET parsed == uri_parse(uri)
      none   == [scheme |-> None, authority |-> << >>, path |-> << >>]
  IN  IF ~parsed.ok THEN [ok |-> FALSE, error |-> "Cannot parse url", uri |-> none]
      ELSE IF parsed.uri.scheme.some /\ parsed.uri.scheme.val # S(<< "h", "t", "t", "p" >>)
        THEN [ok |-> FALSE, error |-> "Protocol not supported", uri |-> none]
      ELSE IF ~parsed.uri.authority.some
        THEN [ok |-> FALSE, error |-> "Missing authority", uri |-> none]
      ELSE [ok |-> TRUE, error |-> "",
            uri |-> [scheme |-> Some(S(<< "h", "t", "t", "p" >>)),
                     authority |-> parsed.uri.authority.val,
                     path |-> IF parsed.uri.path = << >> THEN S(<< "/" >>)
                              ELSE parsed.uri.path]]

\* fn parse_wiki_uri: the upstream base of a URL, or an error; the Uri built
\* from the path "" has the path "/"
parse_wiki_uri(uri) ==
  LET parsed == uri_parse(uri)
      none   == [scheme |-> None, authority |-> << >>, path |-> << >>]
  IN  IF ~parsed.ok THEN [ok |-> FALSE, error |-> "Cannot parse url", uri |-> none]
      ELSE IF parsed.uri.scheme.some /\ parsed.uri.scheme.val # S(<< "h", "t", "t", "p" >>)
        THEN [ok |-> FALSE, error |-> "Protocol not supported", uri |-> none]
      ELSE IF ~parsed.uri.authority.some
        THEN [ok |-> FALSE, error |-> "Missing authority", uri |-> none]
      ELSE IF parsed.uri.query.some
        THEN [ok |-> FALSE, error |-> "URL cannot contain a query", uri |-> none]
      ELSE [ok |-> TRUE, error |-> "",
            uri |-> [scheme |-> Some(S(<< "h", "t", "t", "p" >>)),
                     authority |-> parsed.uri.authority.val,
                     path |-> IF parsed.uri.path = << >> THEN S(<< "/" >>)
                              ELSE parsed.uri.path]]

(***************************************************************************)
(* The URI rewriter and the outbound request  (proxy.rs)                   *)
(***************************************************************************)
\* a mutant of transfer_parts: the local path is appended as it is
transfer_parts_keep_slash(local_uri, remote_uri) ==
  LET joined == IF local_uri.path # S(<< "/" >>)
                  THEN remote_uri.path \o local_uri.path ELSE remote_uri.path
  IN  [scheme |-> IF remote_uri.scheme.some THEN remote_uri.scheme.val
                  ELSE S(<< "h", "t", "t", "p" >>),
       authority |-> remote_uri.authority,
       path_and_query |-> IF local_uri.query.some
                            THEN joined \o S(<< "?" >>) \o local_uri.query.val
                            ELSE joined]

\* a mutant of transfer_parts: "/" is no special case of the local path
transfer_parts_root_appended(local_uri, remote_uri) ==
  LET joined == IF EndsWith(remote_uri.path, Ord["/"])
                  THEN remote_uri.path \o SliceOf(local_uri.path, 2, Len(local_uri.path))
                  ELSE remote_uri.path \o local_uri.path
  IN  [scheme |-> IF remote_uri.scheme.some THEN remote_uri.scheme.val
                  ELSE S(<< "h", "t", "t", "p" >>),
       authority |-> remote_uri.authority,
       path_and_query |-> IF local_uri.query.some
                            THEN joined \o S(<< "?" >>) \o local_uri.query.val
                            ELSE joined]

\* fn transfer_parts: the upstream URI of a local URI
transfer_parts(local_uri, remote_uri) ==
  LET local_path == local_uri.path
      base       == remote_uri.path
      joined     == IF local_path # S(<< "/" >>)
                      THEN IF EndsWith(base, Ord["/"])
                             THEN base \o SliceOf(local_path, 2, Len(local_path))
                             ELSE base \o local_path
                      ELSE base
      path_and_query == IF local_uri.query.some
                          THEN joined \o S(<< "?" >>) \o local_uri.query.val
                          ELSE joined
  IN  [scheme |-> IF remote_uri.scheme.some THEN remote_uri.scheme.val
                  ELSE S(<< "h", "t", "t", "p" >>),
       authority |-> remote_uri.authority,
       path_and_query |-> path_and_query]

\* a mutant of outbound_request: the header is set for every username
outbound_request_always_named(req, remote_uri, username) ==
  [uri |-> transfer_parts(req.uri, remote_uri),
   method |-> req.method,
   headers |-> {<< "X-Auth-Username", username >>},
   body |-> req.body]

\* a mutant of outbound_request: the headers of the client are copied too
outbound_request_copy_headers(req, remote_uri, username) ==
  [uri |-> transfer_parts(req.uri, remote_uri),
   method |-> req.method,
   headers |-> (IF username # << >> THEN {<< "X-Auth-Username", username >>} ELSE {})
               \cup (IF req.cookie.some THEN {<< "Cookie", req.cookie.val >>} ELSE {})
               \cup (IF "headers" \in DOMAIN req THEN req.headers ELSE {}),
   body |-> req.body]

\* run_proxy, up to the call of the upstream: the request it builds
outbound_request(req, remote_uri, username) ==
  [uri |-> transfer_parts(req.uri, remote_uri),
   method |-> req.method,
   headers |-> IF username # << >> THEN {<< "X-Auth-Username", username >>} ELSE {},
   body |-> req.body]

(***************************************************************************)
(* The dispatcher  (service.rs)                                            *)
(*                                                                         *)
(* A request is [method, uri: [path, query], cookie, body]: cookie is the  *)
(* value of its Cookie header, if it has one, and body the results of      *)
(* polling its body stream, each a chunk or an error.                      *)
(* A response is [status, headers, body], headers a set of name-value      *)
(* pairs.  The embedded assets are opaque bodies.                          *)
(***************************************************************************)
EmptyBody == [kind |-> "bytes", wrong_credentials |-> FALSE, bytes |-> << >>]
BytesBody(b) == [kind |-> "bytes", wrong_credentials |-> FALSE, bytes |-> b]
StylesBody == [kind |-> "styles.css", wrong_credentials |-> FALSE, bytes |-> << >>]
\* template.render("login", &LoginFormContext{wrong_credentials})
LoginBody(wrong) == [kind |-> "login.html", wrong_credentials |-> wrong, bytes |-> << >>]

Root == S(<< "/" >>)
StylesPath ==
  S(<< "/", "p", "r", "o", "x", "y", ":", "s", "t", "y", "l", "e", "s", ".", "c", "s", "s" >>)
LogoutPath == S(<< "/", "l", "o", "g", "o", "u", "t" >>)
Get == S(<< "G", "E", "T" >>)
Post == S(<< "P", "O", "S", "T" >>)

\* a mutant of auth_cookie: the last cookie named proxy_auth is taken
auth_cookie_last(request) ==
  LET cookies == IF request.cookie.some THEN header_to_str(request.cookie.val) ELSE None
      parsed  == IF cookies.some
                   THEN [i \in 1..Len(Split(cookies.val, Ord[";"])) |->
                           cookie_parse(Split(cookies.val, Ord[";"])[i])]
                   ELSE << >>
      hits    == {i \in 1..Len(parsed) : parsed[i].ok /\ parsed[i].name = ProxyAuth}
  IN  IF hits = {} THEN None
      ELSE Some(parsed[CHOOSE i \in hits : \A j \in hits : i >= j].value)

\* the value of the first cookie named proxy_auth among the pieces of the
\* Cookie header that parse (service.rs:18-26)
auth_cookie(request) ==
  LET cookies == IF request.cookie.some THEN header_to_str(request.cookie.val) ELSE None
      parsed  == IF cookies.some
                   THEN [i \in 1..Len(Split(cookies.val, Ord[";"])) |->
                           cookie_parse(Split(cookies.val, Ord[";"])[i])]
                   ELSE << >>
      hits    == {i \in 1..Len(parsed) : parsed[i].ok /\ parsed[i].name = ProxyAuth}
  IN  IF hits = {} THEN None
      ELSE Some(parsed[CHOOSE i \in hits : \A j \in hits : i <= j].value)

\* a mutant of is_authenitcated: only a wrong signature is refused
is_authenitcated_lenient(request, secret, time) ==
  LET token == auth_cookie(request)
  IN  IF token.some THEN verify(token.val, secret, time) # "SignatureError" ELSE FALSE

\* fn is_authenitcated
is_authenitcated(request, secret, time) ==
  LET token == auth_cookie(request)
  IN  IF token.some THEN verify(token.val, secret, time) = "Ok" ELSE FALSE

\* what a handler does up to its next suspension point: where it stops, the
\* response it returns (if it returns), the requests it sends upstream
Respond(response) == [pc |-> "done", response |-> Some(response), outbound |-> << >>]

logout_response ==
  [status |-> 303,
   headers |-> {<< "Location", Root >>,
                << "Set-Cookie", cookie_to_string(ProxyAuth, << >>, 0) >>},
   body |-> EmptyBody]

redirect_response ==
  [status |-> 303, headers |-> {<< "Location", Root >>}, body |-> EmptyBody]

styles_response ==
  [status |-> 200,
   headers |-> {<< "Content-Type", S(<< "t", "e", "x", "t", "/", "c", "s", "s" >>) >>},
   body |-> StylesBody]

login_page_response(wrong_password) ==
  [status |-> 200,
   headers |-> {<< "Content-Type", S(<< "t", "e", "x", "t", "/", "h", "t", "m", "l" >>) >>},
   body |-> LoginBody(wrong_password)]

\* a mutant of is_logout_path: only "/logout" logs out
is_logout_path_exact(path) == path = LogoutPath

\* service.rs:45
is_logout_path(path) == path = LogoutPath \/ path = LogoutPath \o S(<< "/" >>)

\* the username handle gives run_proxy: the call names none, and a verified
\* token carries none (service.rs:59)
handle_username == << >>

\* a mutant of handle_authenticated: "/" is answered by the proxy itself
handle_authenticated_own_root(request, config) ==
  IF is_logout_path(request.uri.path) THEN Respond(logout_response)
  ELSE IF request.uri.path = Root THEN Respond(login_page_response(FALSE))
  ELSE [pc |-> "upstream", response |-> None,
        outbound |-> << outbound_request(request, config.remote_uri, handle_username) >>]

\* handle, authenticated: log out, or forward
handle_authenticated(request, config) ==
  IF is_logout_path(request.uri.path) THEN Respond(logout_response)
  ELSE [pc |-> "upstream", response |-> None,
        outbound |-> << outbound_request(request, config.remote_uri, handle_username) >>]

\* a mutant of handle_unauthenticated: other paths are forwarded
handle_unauthenticated_open(request, config) ==
  IF request.uri.path = Root
    THEN IF request.method = Post
           THEN [pc |-> "read_body", response |-> None, outbound |-> << >>]
           ELSE Respond(login_page_response(FALSE))
  ELSE IF request.uri.path = StylesPath THEN Respond(styles_response)
  ELSE [pc |-> "upstream", response |-> None,
        outbound |-> << outbound_request(request, config.remote_uri, handle_username) >>]

\* a mutant of handle_unauthenticated: the routes also match on the method
handle_unauthenticated_by_method(request, config) ==
  IF request.uri.path = Root /\ request.method = Post
    THEN [pc |-> "read_body", response |-> None, outbound |-> << >>]
  ELSE IF request.uri.path = Root /\ request.method = Get
    THEN Respond(login_page_response(FALSE))
  ELSE IF request.uri.path = StylesPath /\ request.method = Get
    THEN Respond(styles_response)
  ELSE Respond(redirect_response)

\* handle, not authenticated: the login page (run_login_page, which reads
\* the body of a POST first), the stylesheet, or a redirect to "/"
handle_unauthenticated(request, config) ==
  IF request.uri.path = Root
    THEN IF request.method = Post
           THEN [pc |-> "read_body", response |-> None, outbound |-> << >>]
           ELSE Respond(login_page_response(FALSE))
  ELSE IF request.uri.path = StylesPath THEN Respond(styles_response)
  ELSE Respond(redirect_response)

\* fn handle, up to its first suspension point
handle(request, config, time) ==
  IF is_authenitcated(request, config.secret, time)
    THEN handle_authenticated(request, config)
    ELSE handle_unauthenticated(request, config)

\* the lifetime of a session: Duration::new(24 * 60 * 60, 0)
TokenLifetime == 24 * 60 * 60

\* a mutant of can_login_call: an empty username is no username
can_login_call_empty_is_absent(fields) ==
  IF fields[2].some
    THEN Some([name |-> IF fields[1] = Some(<< >>) THEN None ELSE fields[1],
               password |-> fields[2].val])
    ELSE None

\* run_login_page, the call of can_login for the fields of the form
\* (service.rs:123-127): none without a password; the username as it is, an
\* empty one too, or None without one
can_login_call(fields) ==
  IF fields[2].some
    THEN Some([name |-> IF fields[1].some THEN Some(fields[1].val) ELSE None,
               password |-> fields[2].val])
    ELSE None

\* a mutant of run_login_page: the session lasts an hour
run_login_page_one_hour(body, config, time) ==
  LET fields   == extract_form_fields(body)
      username == fields[1]
      password == fields[2]
      expires  == time + 60 * 60
  IN  IF ~username.some /\ ~password.some THEN login_page_response(FALSE)
      ELSE IF ~password.some THEN login_page_response(TRUE)
      ELSE IF can_login(config.users, username, password.val)
        THEN [status |-> 303,
              headers |-> {<< "Location", Root >>,
                           << "Set-Cookie",
                              cookie_to_string(ProxyAuth,
                                               generate(Token(expires), config.secret),
                                               expires) >>},
              body |-> EmptyBody]
      ELSE login_page_response(TRUE)

\* a mutant of run_login_page: a form without a password is wrong
\* credentials, whatever else it holds
run_login_page_password_required(body, config, time) ==
  LET fields   == extract_form_fields(body)
      username == fields[1]
      password == fields[2]
      expires  == time + TokenLifetime
  IN  IF ~password.some THEN login_page_response(TRUE)
      ELSE IF can_login(config.users, username, password.val)
        THEN [status |-> 303,
              headers |-> {<< "Location", Root >>,
                           << "Set-Cookie",
                              cookie_to_string(ProxyAuth,
                                               generate(Token(expires), config.secret),
                                               expires) >>},
              body |-> EmptyBody]
      ELSE login_page_response(TRUE)

\* run_login_page once the body of the POST is read: the decision on the
\* form fields, and the session cookie of a login
run_login_page(body, config, time) ==
  LET fields   == extract_form_fields(body)
      username == fields[1]
      password == fields[2]
      call     == can_login_call(fields)
      expires  == time + TokenLifetime
  IN  IF ~username.some /\ ~password.some THEN login_page_response(FALSE)
      ELSE IF ~call.some THEN login_page_response(TRUE)
      ELSE IF can_login(config.users, call.val.name, call.val.password)
        THEN [status |-> 303,
              headers |-> {<< "Location", Root >>,
                           << "Set-Cookie",
                              cookie_to_string(ProxyAuth,
                                               generate(Token(expires), config.secret),
                                               expires) >>},
              body |-> EmptyBody]
      ELSE login_page_response(TRUE)

BadGateway == [status |-> 502, headers |-> {}, body |-> EmptyBody]

\* a mutant of run_proxy_result: the answer is rebuilt from the status and the
\* body of the upstream's response, without its headers
run_proxy_result_no_headers(result) ==
  IF result.ok THEN [result.response EXCEPT !.headers = {}] ELSE BadGateway

\* run_proxy, from the answer of the upstream on: its response as it is, or
\* 502 for an error of the transport
run_proxy_result(result) == IF result.ok THEN result.response ELSE BadGateway

\* a mutant of run_proxy_await: a request that failed is sent once more
run_proxy_await_retry(sent, result) ==
  IF result.ok THEN Respond(result.response)
  ELSE [pc |-> "upstream", response |-> None, outbound |-> << sent >>]

\* run_proxy, the match on the awaited call of the request it sent
\* (proxy.rs:39-42): either arm is the response, and nothing more is sent
run_proxy_await(sent, result) == Respond(run_proxy_result(result))

(***************************************************************************)
(* State                                                                   *)
(***************************************************************************)
VARIABLES
  config,    \* the ProxyConfig shared by the handlers: secret, remote_uri, users
  now,       \* the clock, in seconds since the epoch
  pc,        \* where the handler is: "idle", "read_body", "upstream", "done"
  request,   \* the request being handled
  data,      \* read_body: the bytes read so far
  chunks,    \* read_body: what the body stream still holds
  response,  \* the response returned to the client, if any yet
  upstream,  \* the requests sent upstream while handling the request
  note,      \* what is known of the request from how it was made, the clock
             \* readings of its handler, and the answer of the upstream
  prev,      \* the exchange before, when the request repeats it
  wire,      \* codec: the wire token under test
  origin,    \* codec: how the wire token was made
  verdict,   \* codec: the last call of Token::verify on it
  probe      \* a function under test: its name, its input and its result

codecVars == << wire, origin, verdict, probe >>
serverVars == << config, now, pc, request, data, chunks, response, upstream, note, prev >>
vars == << config, now, pc, request, data, chunks, response, upstream, note, prev,
           wire, origin, verdict, probe >>

NoRequest == [method |-> << >>, uri |-> [path |-> << >>, query |-> None],
              cookie |-> None, body |-> << >>]
NoNote == [cookie |-> "none", expiration |-> 0, auth_clock |-> None, login_clock |-> None,
           reply |-> None, form |-> None, session |-> None, entries |-> << >>]
NoPrev == [some |-> FALSE, request |-> NoRequest, response |-> None, note |-> NoNote]
NoConfig == [secret |-> << >>,
             remote_uri |-> [scheme |-> None, authority |-> << >>, path |-> << >>],
             users |-> << >>]

\* the server at rest
ServerIdle ==
  /\ now = 1
  /\ pc = "idle"
  /\ request = NoRequest
  /\ data = << >>
  /\ chunks = << >>
  /\ response = None
  /\ upstream = << >>
  /\ note = NoNote
  /\ prev = NoPrev

(***************************************************************************)
(* The token codec under test: tokens are generated by Token::generate or  *)
(* put together from arbitrary payload bytes, damaged, and verified.       *)
(***************************************************************************)
\* expirations and clock readings around each other
Expirations == 0..(MaxTime + 1)
Times == 0..MaxTime

Q(x) == S(<< "\"" >>) \o x \o S(<< "\"" >>)

\* payload bytes a client can sign when it knows the secret, each with the
\* class it belongs to and the expiration it carries
Payloads ==
  { [bytes |-> << 255, 254 >>, class |-> "nonutf8", expiration |-> 0],
    [bytes |-> S(<< "{" >>) \o Q(ExpirationKey) \o << Ord[":"], 195, 40, Ord["}"] >>,
     class |-> "nonutf8", expiration |-> 0],
    [bytes |-> S(<< "n", "o", "t", "-", "j", "s", "o", "n" >>),
     class |-> "nonjson", expiration |-> 0],
    [bytes |-> << >>, class |-> "nonjson", expiration |-> 0],
    [bytes |-> S(<< "{" >>) \o Q(ExpirationKey) \o S(<< ":", "3" >>),
     class |-> "nonjson", expiration |-> 0],
    [bytes |-> S(<< "{", "}" >>), class |-> "noexp", expiration |-> 0],
    [bytes |-> S(<< "{" >>) \o Q(S(<< "e", "x", "p" >>)) \o S(<< ":", "3", "}" >>),
     class |-> "noexp", expiration |-> 0],
    [bytes |-> S(<< "{" >>) \o Q(S(<< "u", "s", "e", "r" >>)) \o S(<< ":" >>)
                 \o Q(S(<< "b", "o", "b" >>)) \o S(<< "}" >>),
     class |-> "noexp", expiration |-> 0] }
  \cup
  { [bytes |-> S(<< "{" >>) \o Q(ExpirationKey) \o S(<< ":" >>) \o Digits(e)
                 \o S(<< "," >>) \o Q(S(<< "u", "s", "e", "r" >>)) \o S(<< ":" >>)
                 \o Q(S(<< "b", "o", "b" >>)) \o S(<< "}" >>),
     class |-> "extra", expiration |-> e] : e \in Expirations }
  \cup
  { [bytes |-> S(<< "{", " " >>) \o Q(S(<< "n" >>)) \o S(<< ":", "7", ",", " " >>)
                 \o Q(ExpirationKey) \o S(<< " ", ":", " " >>) \o Digits(e)
                 \o S(<< " ", "}" >>),
     class |-> "extra", expiration |-> e] : e \in Expirations }
  \cup
  { [bytes |-> S(<< "[" >>) \o Digits(e) \o S(<< "]" >>),
     class |-> "seq", expiration |-> e] : e \in Expirations }

Defects == {"nodot", "payload_b64", "signature_b64", "signature_flip"}

\* the wire token of payload bytes signed under a secret, with defects:
\* the period left out, a character outside the base64 alphabet in a half,
\* the first character of the signature exchanged for another
Damaged(bytes, secret, defects) ==
  LET p0 == b64_encode(bytes)
      s0 == b64_encode(sign_token(bytes, secret))
      s1 == IF "signature_flip" \in defects
              THEN [s0 EXCEPT ![1] = IF s0[1] = Ord["A"] THEN Ord["B"] ELSE Ord["A"]]
              ELSE s0
      p2 == IF "payload_b64" \in defects THEN S(<< "!" >>) \o p0 ELSE p0
      s2 == IF "signature_b64" \in defects THEN s1 \o S(<< "!" >>) ELSE s1
  IN  p2 \o (IF "nodot" \in defects THEN << >> ELSE S(<< "." >>)) \o s2

NoProbe == [fn |-> "none"]

NoVerdict == [done |-> FALSE, secret |-> << >>, time |-> 0, result |-> "none"]

CodecIdle ==
  /\ wire = << >>
  /\ origin = [kind |-> "none", bytes |-> << >>, class |-> "none", expiration |-> 0,
               secret |-> << >>, defects |-> {}]
  /\ verdict = NoVerdict
  /\ probe = NoProbe

InitCodec == CodecIdle /\ ServerIdle /\ config = NoConfig

\* Token::new(e).generate(config) under secret s
Generate(e, s) ==
  /\ origin.kind = "none"
  /\ UNCHANGED serverVars
  /\ wire' = generate(Token(e), s)
  /\ origin' = [kind |-> "generated", bytes |-> to_json(Token(e)), class |-> "token",
                expiration |-> e, secret |-> s, defects |-> {}]
  /\ verdict' = NoVerdict
  /\ UNCHANGED probe

\* a holder of secret s signs the payload p
Forge(p, s) ==
  /\ origin.kind = "none"
  /\ UNCHANGED serverVars
  /\ wire' = Damaged(p.bytes, s, {})
  /\ origin' = [kind |-> "forged", bytes |-> p.bytes, class |-> p.class,
                expiration |-> p.expiration, secret |-> s, defects |-> {}]
  /\ verdict' = NoVerdict
  /\ UNCHANGED probe

\* the wire token is damaged on its way
Tamper(d) ==
  /\ origin.kind # "none"
  /\ UNCHANGED serverVars
  /\ d \notin origin.defects
  /\ wire' = Damaged(origin.bytes, origin.secret, origin.defects \cup {d})
  /\ origin' = [origin EXCEPT !.defects = @ \cup {d}]
  /\ verdict' = NoVerdict
  /\ UNCHANGED probe

\* Token::verify(wire, config, t) under secret s
Verify(s, t) ==
  /\ origin.kind # "none"
  /\ ~verdict.done
  /\ verdict' = [done |-> TRUE, secret |-> s, time |-> t, result |-> verify(wire, s, t)]
  /\ UNCHANGED << wire, origin, probe >>
  /\ UNCHANGED serverVars

NextCodec ==
  \/ \E e \in Expirations, s \in Secrets : Generate(e, s)
  \/ \E p \in Payloads, s \in Secrets : Forge(p, s)
  \/ \E d \in Defects : Tamper(d)
  \/ \E s \in Secrets, t \in Times : Verify(s, t)

SpecCodec == InitCodec /\ [][NextCodec]_vars

(***************************************************************************)
(* Functions under test: a function of the program is called once on an    *)
(* input, and probe keeps the input, what it is by construction, and the   *)
(* result.                                                                 *)
(***************************************************************************)
RECURSIVE JoinEntries(_)
\* the header of a sequence of entries: "; " between them
JoinEntries(entries) ==
  IF Len(entries) = 1 THEN entries[1].text
  ELSE entries[1].text \o S(<< ";", " " >>) \o JoinEntries(Tail(entries))

\* credential tables with the password each entry was made for, names and
\* passwords to try on them
CanLoginInputs ==
  LET user   == S(<< "u", "s", "e", "r" >>)
      admin  == S(<< "a", "d", "m", "i", "n" >>)
      salt   == S(<< "A", "B", "C", "D", "E", "F" >>)
      salt2  == S(<< "A", "B", "C", "D", "E", "F", ":" >>)
      pass   == S(<< "p", "a", "s", "s", "w", "o", "r", "d" >>)
      other  == S(<< "w", "r", "o", "n", "g" >>)
      made   == { [k \in {Some(user)} |-> [salt |-> salt, password |-> pass]],
                  [k \in {None} |-> [salt |-> salt, password |-> pass]],
                  [k \in {Some(user), Some(admin)} |->
                     IF k = Some(user) THEN [salt |-> salt, password |-> pass]
                     ELSE [salt |-> salt2, password |-> other]],
                  [k \in {Some(<< >>)} |-> [salt |-> salt, password |-> << >>]],
                  [k \in {} |-> [salt |-> salt, password |-> pass]] }
      names  == {None, Some(user), Some(admin), Some(<< >>),
                 Some(S(<< "U", "s", "e", "r" >>))}
      words  == {pass, other, << >>, S(<< ":" >>) \o other,
                 S(<< "P", "a", "s", "s", "w", "o", "r", "d" >>)}
  IN  { [users |-> [k \in DOMAIN t |->
                      [salt |-> t[k].salt,
                       password_hash |-> Sha256(t[k].salt \o S(<< ":" >>) \o t[k].password)]],
         made |-> t, name |-> n, password |-> w] : t \in made, n \in names, w \in words }

\* CredentialsStore::can_login(name, password) on a table
CanLogin(i) ==
  /\ probe.fn = "none"
  /\ probe' = [fn |-> "can_login", in |-> i,
                out |-> can_login(i.users, i.name, i.password)]
  /\ UNCHANGED << wire, origin, verdict >>
  /\ UNCHANGED serverVars

\* the parts of a credential list, each with what it is by construction: a
\* user with a name, the user without a name, a part that is no user
CredentialParts ==
  LET hash == [i \in 1..64 |-> IF i % 2 = 0 THEN Ord["a"] ELSE Ord["7"]]
      salt == S(<< ":", "A", "B", "C", "D", "E", "F", ":" >>)
  IN  { [text |-> S(<< "u", "s", "e", "r" >>) \o salt \o hash, class |-> "named"],
        [text |-> S(<< "b", "o", "b" >>) \o salt \o hash, class |-> "named"],
        [text |-> salt \o hash, class |-> "anonymous"],
        [text |-> S(<< "u", "s", "e", "r", ":", "A", "B", "C", ":" >>) \o hash,
         class |-> "invalid"],
        [text |-> S(<< "u", "s", "e", "r" >>) \o salt \o Tail(hash), class |-> "invalid"],
        [text |-> S(<< "u", "s", "e", "r", ":", "A", "B", "C", "D", "E", "F" >>),
         class |-> "invalid"],
        [text |-> << >>, class |-> "invalid"] }

\* ProxyConfig::from_values on a credential list
ParseCredentials(parts) ==
  /\ probe.fn = "none"
  /\ probe' = [fn |-> "from_values",
                in |-> [text |-> JoinEntries(parts),
                        classes |-> [i \in 1..Len(parts) |-> parts[i].class]],
                out |-> from_values_users(JoinEntries(parts))]
  /\ UNCHANGED << wire, origin, verdict >>
  /\ UNCHANGED serverVars

\* local URIs (origin form, or absolute form with a scheme and an authority
\* of their own) and upstream bases
TransferInputs ==
  LET paths   == {S(<< "/" >>), S(<< "/", "a" >>), S(<< "/", "a", "/" >>),
                  S(<< "/", "a", "/", "b", ".", "c" >>)}
      queries == {None, Some(S(<< "q", "=", "1", "&", "r", "=", "/" >>)), Some(<< >>)}
      hosts   == {None, Some(S(<< "l", ":", "8", "0" >>))}
      bases   == {S(<< "/" >>), S(<< "/", "x" >>), S(<< "/", "x", "/" >>),
                  S(<< "/", "x", "/", "y" >>)}
      schemes == {None, Some(S(<< "h", "t", "t", "p" >>)),
                  Some(S(<< "h", "t", "t", "p", "s" >>))}
  IN  { [local |-> [path |-> lp, query |-> q, authority |-> h,
                    scheme |-> IF h.some THEN Some(S(<< "f", "t", "p" >>)) ELSE None],
         remote |-> [scheme |-> sc, authority |-> a, path |-> bp]] :
          lp \in paths, q \in queries, h \in hosts, bp \in bases, sc \in schemes,
          a \in {S(<< "h", ":", "7", "0", "0", "0" >>), S(<< "w", "i", "k", "i" >>)} }

\* transfer_parts(local_uri, remote_uri)
TransferParts(i) ==
  /\ probe.fn = "none"
  /\ probe' = [fn |-> "transfer_parts", in |-> i,
                out |-> transfer_parts(i.local, i.remote)]
  /\ UNCHANGED << wire, origin, verdict >>
  /\ UNCHANGED serverVars

\* the pairs of a form, each with the key and the value it stands for
FormParts ==
  LET user  == S(<< "u", "s", "e", "r" >>)
      pass  == S(<< "p", "a", "s", "s", "w", "o", "r", "d" >>)
      wrong == S(<< "w", "r", "o", "n", "g" >>)
  IN  { [text |-> UsernameKey \o S(<< "=" >>) \o user, key |-> "username", value |-> user],
        [text |-> UsernameKey \o S(<< "=" >>), key |-> "username", value |-> << >>],
        [text |-> S(<< "u", "s", "e", "r", "%", "6", "E", "a", "m", "e", "=", "b", "+", "b" >>),
         key |-> "username", value |-> S(<< "b", " ", "b" >>)],
        [text |-> PasswordKey \o S(<< "=" >>) \o pass, key |-> "password", value |-> pass],
        [text |-> PasswordKey, key |-> "password", value |-> << >>],
        [text |-> S(<< "p", "a", "s", "s", "%", "7", "7", "o", "r", "d", "=" >>) \o wrong,
         key |-> "password", value |-> wrong],
        [text |-> S(<< "U", "s", "e", "r", "n", "a", "m", "e", "=", "x" >>),
         key |-> "other", value |-> S(<< "x" >>)] }

\* extract_form_fields on the body made of the pairs, with "&" between them,
\* and the call of can_login run_login_page makes for its result
ExtractFormFields(parts) ==
  LET RECURSIVE join(_)
      join(ps) == IF Len(ps) = 0 THEN << >>
                  ELSE IF Len(ps) = 1 THEN ps[1].text
                  ELSE ps[1].text \o S(<< "&" >>) \o join(Tail(ps))
  IN  /\ probe.fn = "none"
      /\ \E fields \in {extract_form_fields(join(parts))} :
           probe' = [fn |-> "extract_form_fields",
                     in |-> [i \in 1..Len(parts) |->
                               [key |-> parts[i].key, value |-> parts[i].value]],
                     out |-> [username |-> fields[1], password |-> fields[2],
                              call |-> can_login_call(fields)]]
      /\ UNCHANGED << wire, origin, verdict >>
      /\ UNCHANGED serverVars

\* parse_wiki_uri on the URL written from a scheme, an authority, a path and
\* a query, each there or not
ParseWikiUri(scheme, authority, path, query) ==
  /\ probe.fn = "none"
  /\ \E text \in {(IF scheme.some THEN scheme.val \o S(<< ":", "/", "/" >>) ELSE << >>)
                    \o (IF authority.some THEN authority.val ELSE << >>)
                    \o path
                    \o (IF query.some THEN S(<< "?" >>) \o query.val ELSE << >>)} :
       probe' = [fn |-> "parse_wiki_uri",
                 in |-> [scheme |-> scheme, authority |-> authority, path |-> path,
                         query |-> query, text |-> text],
                 out |-> parse_wiki_uri(text)]
  /\ UNCHANGED << wire, origin, verdict >>
  /\ UNCHANGED serverVars

NextPure ==
  \/ \E scheme \in {None, Some(S(<< "h", "t", "t", "p" >>)),
                     Some(S(<< "h", "t", "t", "p", "s" >>)), Some(S(<< "f", "t", "p" >>))} :
       \E authority \in {None, Some(S(<< "l", "o", "c", "a", "l", "h", "o", "s", "t", ":",
                                          "1", "2", "3", "4", "5" >>)),
                          Some(S(<< "h" >>)),
                          Some(S(<< "h", "t", "t", "p", ":", ":", "w", "r", "o", "n", "g",
                                    "-", "u", "r", "i" >>))} :
         \E path \in {<< >>, S(<< "/" >>), S(<< "/", "p", "a", "t", "h" >>),
                       S(<< "/", "x", "/" >>)} :
           \E query \in {None, Some(S(<< "q", "u", "e", "r", "y" >>)), Some(<< >>)} :
             ParseWikiUri(scheme, authority, path, query)
  \/ \E n \in 0..MaxEntries : \E parts \in [1..n -> FormParts] : ExtractFormFields(parts)
  \/ \E i \in CanLoginInputs : CanLogin(i)
  \/ \E i \in TransferInputs : TransferParts(i)
  \/ \E n \in 1..MaxEntries : \E parts \in [1..n -> CredentialParts] :
       ParseCredentials(parts)

SpecPure == InitCodec /\ [][NextPure]_vars

(***************************************************************************)
(* The server: one request at a time is received, handled up to each       *)
(* suspension point of its handler (the chunks of the body of a login, the *)
(* answer of the upstream), and answered.  The clock ticks in between.     *)
(***************************************************************************)
\* the secrets of the configurations of the server
ServerSecrets == {[i \in 1..SecretLen |-> Ord["0"]], [i \in 1..SecretLen |-> Ord["1"]]}
\* a secret the server does not hold
OtherSecret(secret) == CHOOSE x \in Secrets : x # secret

UserName == S(<< "u", "s", "e", "r" >>)
Salt == S(<< "A", "B", "C", "D", "E", "F" >>)
Password == PasswordKey
UserCredentials == [salt |-> Salt, password_hash |-> generate_hash(Salt, Password)]

\* the tables of "user:ABCDEF:<hash>" and of ":ABCDEF:<hash>": the keys that
\* from_values gives them, each with the credentials of the password
MultiUsers ==
  [k \in DOMAIN from_values_users(UserName \o S(<< ":" >>) \o Salt \o S(<< ":" >>)
                                    \o [i \in 1..64 |-> Ord["0"]]).users |->
     UserCredentials]
AnonymousUsers ==
  [k \in DOMAIN from_values_users(S(<< ":" >>) \o Salt \o S(<< ":" >>)
                                    \o [i \in 1..64 |-> Ord["0"]]).users |->
     UserCredentials]

Http == S(<< "h", "t", "t", "p" >>)
Authority == S(<< "h", ":", "7", "0", "0", "0" >>)

Configs ==
  { [secret |-> s,
     remote_uri |-> [scheme |-> Some(Http), authority |-> Authority, path |-> Root],
     users |-> MultiUsers] : s \in ServerSecrets }
  \cup
  { [secret |-> s,
     remote_uri |-> [scheme |-> Some(Http), authority |-> Authority,
                     path |-> S(<< "/", "x" >>)],
     users |-> AnonymousUsers] : s \in ServerSecrets }

Methods == {Get, Post, S(<< "P", "U", "T" >>), S(<< "p", "o", "s", "t" >>)}

Uris ==
  { [path |-> Root, query |-> None],
    [path |-> StylesPath, query |-> None],
    [path |-> LogoutPath, query |-> None],
    [path |-> LogoutPath \o S(<< "/" >>), query |-> None],
    [path |-> S(<< "/", "h", "e", "l", "l", "o" >>), query |-> Some(S(<< "q", "=", "1" >>))] }

Chunk(bytes) == [ok |-> TRUE, data |-> bytes]

UserField == UsernameKey \o S(<< "=" >>) \o UserName
PasswordField == PasswordKey \o S(<< "=" >>) \o Password

Bodies ==
  { << >>,
    << Chunk(UserField \o S(<< "&", "p", "a", "s" >>)),
       Chunk(S(<< "s", "w", "o", "r", "d", "=" >>) \o Password) >>,
    << Chunk(PasswordField) >>,
    << Chunk(UserField \o S(<< "&" >>) \o PasswordKey \o S(<< "=", "w", "r", "o", "n", "g" >>)) >> }

Cookie1 == S(<< "c", "o", "o", "k", "i", "e", "1", "=", "2", ";", " " >>)
Cookie2 == S(<< ";", " ", "c", "o", "o", "k", "i", "e", "2", "=", "3" >>)
AuthIs == ProxyAuth \o S(<< "=" >>)

\* Cookie headers, each with what it is by construction: no header; a header
\* that is not text; headers without a proxy_auth cookie; a proxy_auth that
\* is no token, one signed under another secret, and tokens of the server
CookieHeaders(secret) ==
  { [header |-> None, kind |-> "absent", expiration |-> 0],
    [header |-> Some(AuthIs \o generate(Token(MaxTime + 1), secret) \o << 233 >>),
     kind |-> "not_text", expiration |-> 0],
    [header |-> Some(S(<< "i", "n", "v", "a", "l", "i", "d", "-", "v", "a", "l", "u", "e" >>)),
     kind |-> "no_cookie", expiration |-> 0],
    [header |-> Some(Cookie1 \o SliceOf(Cookie2, 3, Len(Cookie2))),
     kind |-> "no_cookie", expiration |-> 0],
    [header |-> Some(Cookie1 \o AuthIs
                       \o S(<< "i", "n", "v", "a", "l", "i", "d", "_", "v", "a", "l", "u", "e" >>)
                       \o Cookie2),
     kind |-> "format", expiration |-> 0],
    [header |-> Some(AuthIs \o generate(Token(MaxTime + 1), OtherSecret(secret))),
     kind |-> "signature", expiration |-> MaxTime + 1] }
  \cup
  { [header |-> Some(Cookie1 \o AuthIs \o generate(Token(e), secret) \o Cookie2),
     kind |-> "token", expiration |-> e] : e \in 1..(MaxTime + 1) }

Requests(cfg) ==
  { [req |-> [method |-> m, uri |-> u, cookie |-> c.header, body |-> b],
     label |-> [cookie |-> c.kind, expiration |-> c.expiration]] :
      m \in Methods, u \in Uris, c \in CookieHeaders(cfg.secret), b \in Bodies }

NoResponse == [status |-> 0, headers |-> {}, body |-> EmptyBody]

\* what the upstream does with a request: an answer, or no answer
UpstreamResults ==
  { [ok |-> TRUE,
     response |-> [status |-> 200,
                   headers |-> {<< "X-Return-Header", S(<< "R" >>) >>},
                   body |-> BytesBody(S(<< "r", "e", "m", "o", "t", "e" >>))]],
    [ok |-> TRUE,
     response |-> [status |-> 404,
                   headers |-> {<< "Set-Cookie", S(<< "s", "i", "d", "=", "1" >>) >>},
                   body |-> EmptyBody]],
    [ok |-> FALSE, response |-> NoResponse] }

Init == config \in Configs /\ ServerIdle /\ CodecIdle

\* handle(request, config) is called, and runs to its first suspension point;
\* known is what is known of the request from how it was made
StartWith(req, known) ==
  \E step \in {handle(req, config, now)} :
      /\ request' = req
      /\ pc' = step.pc
      /\ response' = step.response
      /\ upstream' = step.outbound
      /\ data' = << >>
      /\ chunks' = IF step.pc = "read_body" THEN req.body ELSE << >>
      /\ note' = [known EXCEPT
                    !.auth_clock = IF auth_cookie(req).some THEN Some(now) ELSE None]
      /\ UNCHANGED << config, now >>
      /\ UNCHANGED codecVars

Start(req, label) ==
  StartWith(req, [NoNote EXCEPT !.cookie = label.cookie, !.expiration = label.expiration])

\* a request arrives
Handle(r) ==
  /\ pc = "idle"
  /\ Start(r.req, r.label)
  /\ UNCHANGED prev

\* a mutant of read_body: when the stream fails, what was read stays
read_body_partial(read, stream) == read

\* fn read_body, at the end of its loop: the bytes read when the stream has
\* ended, none of them when the next chunk is an error (service.rs:111)
read_body(read, stream) == IF stream = << >> THEN read ELSE << >>

\* read_body: the stream yields a chunk
ReadChunk ==
  /\ pc = "read_body"
  /\ chunks # << >>
  /\ Head(chunks).ok
  /\ data' = data \o Head(chunks).data
  /\ chunks' = Tail(chunks)
  /\ UNCHANGED << config, now, pc, request, response, upstream, note, prev >>
  /\ UNCHANGED codecVars

\* read_body: the stream ends (the bytes read are the body) or fails (the
\* body is empty), and run_login_page goes on to its response
FinishBody ==
  /\ pc = "read_body"
  /\ IF chunks = << >> THEN TRUE ELSE ~Head(chunks).ok
  /\ \E body \in {read_body(data, chunks)} :
       \E resp \in {run_login_page(body, config, now)} :
         /\ data' = body
         /\ response' = Some(resp)
         /\ note' = [note EXCEPT !.login_clock = IF resp.status = 303 THEN Some(now) ELSE None]
  /\ chunks' = << >>
  /\ pc' = "done"
  /\ UNCHANGED << config, now, request, upstream, prev >>
  /\ UNCHANGED codecVars

\* run_proxy: the upstream answers, or the call fails
UpstreamReply(result) ==
  /\ pc = "upstream"
  /\ \E step \in {run_proxy_await(upstream[Len(upstream)], result)} :
       /\ response' = step.response
       /\ pc' = step.pc
       /\ upstream' = upstream \o step.outbound
  /\ note' = [note EXCEPT !.reply = Some(result)]
  /\ UNCHANGED << config, now, request, data, chunks, prev >>
  /\ UNCHANGED codecVars

\* a second passes
Tick ==
  /\ now < MaxTime
  /\ now' = now + 1
  /\ UNCHANGED << config, pc, request, data, chunks, response, upstream, note, prev >>
  /\ UNCHANGED codecVars

\* the client sends the request it has an answer for once more, without its
\* Cookie header
Resubmit ==
  /\ pc = "done"
  /\ ~prev.some
  /\ request.cookie.some
  /\ prev' = [some |-> TRUE, request |-> request, response |-> response, note |-> note]
  /\ Start([request EXCEPT !.cookie = None], [cookie |-> "absent", expiration |-> 0])

Next ==
  \/ \E r \in Requests(config) : Handle(r)
  \/ ReadChunk
  \/ FinishBody
  \/ \E result \in UpstreamResults : UpstreamReply(result)
  \/ Tick
  \/ Resubmit

Spec == Init /\ [][Next]_vars

(***************************************************************************)
(* Sessions: a client posts the login form, and presents the cookie of a   *)
(* successful login with a later request, seconds or a day later.          *)
(***************************************************************************)
Nobody == S(<< "n", "o", "b", "o", "d", "y" >>)
Wrong == S(<< "w", "r", "o", "n", "g" >>)

\* bodies of the login form, each with the fields it holds by construction
LoginForms ==
  { [chunks |-> << >>, user |-> None, password |-> None],
    [chunks |-> << Chunk(S(<< "o", "t", "h", "e", "r", "=", "1" >>)) >>,
     user |-> None, password |-> None],
    [chunks |-> << Chunk(UserField) >>, user |-> Some(UserName), password |-> None],
    [chunks |-> << Chunk(UserField \o S(<< "&", "p", "a", "s" >>)),
                   Chunk(S(<< "s", "w", "o", "r", "d", "=" >>) \o Password) >>,
     user |-> Some(UserName), password |-> Some(Password)],
    [chunks |-> << Chunk(PasswordKey \o S(<< "=", "p", "%", "6", "1", "s", "s" >>)),
                   Chunk(S(<< "w", "o", "r", "d" >>)) >>,
     user |-> None, password |-> Some(Password)],
    [chunks |-> << Chunk(UserField \o S(<< "&" >>) \o PasswordKey \o S(<< "=" >>) \o Wrong) >>,
     user |-> Some(UserName), password |-> Some(Wrong)],
    [chunks |-> << Chunk(PasswordKey \o S(<< "=" >>) \o Wrong) >>,
     user |-> None, password |-> Some(Wrong)],
    [chunks |-> << Chunk(UsernameKey \o S(<< "=" >>) \o Nobody \o S(<< "&" >>) \o PasswordField) >>,
     user |-> Some(Nobody), password |-> Some(Password)] }

\* what a client sends on with a later request
FollowUps ==
  { [method |-> Get, uri |-> [path |-> Root, query |-> None]],
    [method |-> Post, uri |-> [path |-> S(<< "/", "h", "e", "l", "l", "o" >>),
                               query |-> Some(S(<< "q", "=", "1" >>))]],
    [method |-> Get, uri |-> [path |-> LogoutPath, query |-> None]] }

\* the name=value pair a client keeps of a Set-Cookie header
cookie_pair(set_cookie) == SliceOf(set_cookie, 1, Find(set_cookie, Ord[";"]) - 1)

\* the login form is posted, without a cookie
Login(form) ==
  /\ pc = "idle"
  /\ StartWith([method |-> Post, uri |-> [path |-> Root, query |-> None],
                cookie |-> None, body |-> form.chunks],
               [NoNote EXCEPT !.cookie = "absent",
                              !.form = Some([user |-> form.user, password |-> form.password])])
  /\ UNCHANGED prev

\* the client of a successful login sends a request with the cookie it got
Follow(next) ==
  /\ pc = "done"
  /\ ~prev.some
  /\ note.login_clock.some
  /\ prev' = [some |-> TRUE, request |-> request, response |-> response, note |-> note]
  /\ \E h \in {c \in response.val.headers : c[1] = "Set-Cookie"} :
       StartWith([method |-> next.method, uri |-> next.uri,
                  cookie |-> Some(cookie_pair(h[2])), body |-> << >>],
                 [NoNote EXCEPT !.cookie = "issued",
                                !.session = Some([user |-> note.form.val.user,
                                                  issued_at |-> note.login_clock.val,
                                                  presented_at |-> now])])

\* the client that was answered on "/logout" keeps the cookie it has, and
\* sends it with one more request
Again(next) ==
  /\ pc = "done"
  /\ prev.some
  /\ note.cookie = "issued"
  /\ is_logout_path(request.uri.path)
  /\ ~is_logout_path(next.uri.path)
  /\ prev' = [some |-> TRUE, request |-> request, response |-> response, note |-> note]
  /\ StartWith([method |-> next.method, uri |-> next.uri,
                cookie |-> request.cookie, body |-> << >>],
               [NoNote EXCEPT !.cookie = "issued",
                              !.session = Some([note.session.val EXCEPT
                                                  !.presented_at = now])])

\* a client that does not know the secret sends a cookie of its own making:
\* a token signed with another secret, a token without a signature, or what
\* it has seen of a token that was issued, with a later expiration put before
\* the signature or with the end of the signature cut off
Intrude(next, kind) ==
  /\ pc \in {"idle", "done"}
  /\ \E seen \in {(IF pc = "done" /\ note.login_clock.some
                     THEN {cookie_pair(h[2]) :
                             h \in {c \in response.val.headers : c[1] = "Set-Cookie"}}
                     ELSE {})
                  \cup (IF note.cookie = "issued" THEN {request.cookie.val} ELSE {})} :
     \E later \in {b64_encode(to_json(Token(now + 2 * TokenLifetime)))} :
       \E c \in CASE kind = "other_secret" ->
                       {AuthIs \o generate(Token(now + TokenLifetime),
                                           OtherSecret(config.secret))}
                  [] kind = "unsigned" -> {AuthIs \o later \o S(<< "." >>)}
                  [] kind = "tampered" ->
                       {AuthIs \o later \o SliceOf(p, Find(p, Ord["."]), Len(p)) :
                          p \in seen}
                  [] kind = "cut" -> {SliceOf(p, 1, Len(p) - 1) : p \in seen} :
         StartWith([method |-> next.method, uri |-> next.uri,
                    cookie |-> Some(c), body |-> << >>],
                   [NoNote EXCEPT !.cookie = kind])
  /\ UNCHANGED prev

\* a day passes, to the second or but for a second
Sleep(d) ==
  /\ now <= MaxTime
  /\ now' = now + d
  /\ UNCHANGED << config, pc, request, data, chunks, response, upstream, note, prev >>
  /\ UNCHANGED codecVars

NextSession ==
  \/ \E form \in LoginForms : Login(form)
  \/ ReadChunk
  \/ FinishBody
  \/ \E next \in FollowUps : Follow(next)
  \/ \E next \in FollowUps : Again(next)
  \/ \E result \in UpstreamResults : UpstreamReply(result)
  \/ Tick
  \/ \E d \in {TokenLifetime - 1, TokenLifetime} : Sleep(d)

SpecSession == Init /\ [][NextSession]_vars

(***************************************************************************)
(* Clients of every kind: those that log in, with a form of any shape, over *)
(* a body stream that ends or fails, and go on with the cookie they got,   *)
(* and those that make cookies without the secret.                         *)
(***************************************************************************)
NextClients ==
  \/ \E form \in LoginForms \cup
       { [chunks |-> << Chunk(UsernameKey \o S(<< "=", "&" >>) \o PasswordField) >>,
          user |-> Some(<< >>), password |-> Some(Password)],
         [chunks |-> << Chunk(UserField \o S(<< "&" >>) \o PasswordField),
                        [ok |-> FALSE, data |-> << >>] >>,
          user |-> Some(UserName), password |-> Some(Password)],
         [chunks |-> << Chunk(PasswordKey), Chunk(S(<< "=" >>) \o Password),
                        [ok |-> FALSE, data |-> << >>],
                        Chunk(S(<< "&", "x", "=", "1" >>)) >>,
          user |-> None, password |-> Some(Password)],
         [chunks |-> << [ok |-> FALSE, data |-> << >>] >>,
          user |-> None, password |-> None] } : Login(form)
  \/ ReadChunk
  \/ FinishBody
  \/ \E next \in FollowUps : Follow(next)
  \/ \E next \in FollowUps, kind \in {"other_secret", "unsigned", "tampered", "cut"} :
       Intrude(next, kind)
  \/ \E result \in UpstreamResults : UpstreamReply(result)
  \/ Tick
  \/ \E d \in {TokenLifetime - 1, TokenLifetime} : Sleep(d)

SpecClients == Init /\ [][NextClients]_vars

(***************************************************************************)
(* Cookie headers: a client sends a Cookie header of up to MaxEntries      *)
(* entries, some of which are no cookies and some of which are named       *)
(* proxy_auth.                                                             *)
(***************************************************************************)
\* the entries of a Cookie header, each with what it is by construction:
\* no cookie, a cookie of another name, a proxy_auth holding a token of the
\* server that is good at every reading of the clock, a proxy_auth that fails
CookieEntries(secret) ==
  { [text |-> S(<< "i", "n", "v", "a", "l", "i", "d", "-", "v", "a", "l", "u", "e" >>),
     class |-> "unparseable"],
    [text |-> S(<< "=", "x" >>), class |-> "unparseable"],
    [text |-> S(<< "c", "o", "o", "k", "i", "e", "1", "=", "2" >>), class |-> "other"],
    [text |-> S(<< "P", "r", "o", "x", "y", "_", "A", "u", "t", "h", "=" >>)
                \o generate(Token(MaxTime + 1), secret),
     class |-> "other"],
    [text |-> AuthIs \o generate(Token(MaxTime + 1), secret), class |-> "good"],
    [text |-> ProxyAuth \o S(<< " ", "=", " " >>) \o generate(Token(MaxTime + 1), secret),
     class |-> "good"],
    [text |-> AuthIs \o generate(Token(1), secret), class |-> "failing"],
    [text |-> AuthIs \o S(<< "i", "n", "v", "a", "l", "i", "d", "_", "v", "a", "l", "u", "e" >>),
     class |-> "failing"] }

\* a request arrives with a Cookie header of the given entries
Compose(entries) ==
  /\ pc = "idle"
  /\ StartWith([method |-> Get,
                uri |-> [path |-> S(<< "/", "h", "e", "l", "l", "o" >>),
                         query |-> Some(S(<< "q", "=", "1" >>))],
                cookie |-> Some(JoinEntries(entries)), body |-> << >>],
               [NoNote EXCEPT !.cookie = "composed",
                              !.entries = [i \in 1..Len(entries) |-> entries[i].class]])
  /\ UNCHANGED prev

NextCookie ==
  \/ \E n \in 1..MaxEntries : \E entries \in [1..n -> CookieEntries(config.secret)] :
       Compose(entries)
  \/ \E result \in UpstreamResults : UpstreamReply(result)

\* the credential table has no part in the lookup: one table will do
InitCookie == Init /\ config.users = MultiUsers

SpecCookie == InitCookie /\ [][NextCookie]_vars

(***************************************************************************)
(* The upstream proxy on its own: run_proxy is called with a request, the  *)
(* upstream base of the configuration and a username, as its tests call    *)
(* it.  The request has, besides its Cookie header, the other headers the  *)
(* client sent.                                                            *)
(***************************************************************************)
\* calls of run_proxy: requests with and without a body, a session cookie
\* and an X-Auth-Username of the client's own, and usernames
ProxyCalls(cfg) ==
  LET uris    == { [path |-> S(<< "/", "h", "e", "l", "l", "o" >>),
                    query |-> Some(S(<< "q", "=", "1", "2", "3" >>))],
                   [path |-> Root, query |-> None] }
      cookies == { None, Some(AuthIs \o generate(Token(MaxTime + 1), cfg.secret)) }
      sent    == { {}, {<< "X-Auth-Username", S(<< "a", "d", "m", "i", "n" >>) >>,
                        << "Accept", S(<< "*", "/", "*" >>) >>} }
      bodies  == { << >>, << Chunk(S(<< "B", "o", "d", "y" >>)) >> }
  IN  { [req |-> [method |-> m, uri |-> u, cookie |-> c, headers |-> h, body |-> b],
         username |-> n] :
          m \in {Get, Post}, u \in uris, c \in cookies, h \in sent, b \in bodies,
          n \in {<< >>, UserName, S(<< " " >>)} }

\* run_proxy(req, remote_uri, username), up to the call of the upstream
RunProxy(call) ==
  /\ pc = "idle"
  /\ request' = call.req
  /\ pc' = "upstream"
  /\ upstream' = << outbound_request(call.req, config.remote_uri, call.username) >>
  /\ probe' = [fn |-> "run_proxy", in |-> call]
  /\ UNCHANGED << config, now, data, chunks, response, note, prev >>
  /\ UNCHANGED << wire, origin, verdict >>

\* the upstream answers as in UpstreamResults, or with a 502 of its own, or
\* the call fails before a connection, on the connection, or in the read
NextProxy ==
  \/ \E call \in ProxyCalls(config) : RunProxy(call)
  \/ \E result \in UpstreamResults
                     \cup { [ok |-> TRUE,
                             response |-> [status |-> 502, headers |-> {},
                                           body |-> BytesBody(S(<< "d", "o", "w", "n" >>))]] }
                     \cup { [ok |-> FALSE, response |-> NoResponse, error |-> e] :
                              e \in {"dns", "connect", "read"} } :
       UpstreamReply(result)

SpecProxy == Init /\ [][NextProxy]_vars

(***************************************************************************)
(* Concurrent handlers: the server runs handle for each request as a task  *)
(* of its own (main.rs:33-40), all with handles on the one ProxyConfig.    *)
(* Under this specification pc, request, data, chunks, response, upstream  *)
(* and note are functions of the handler; config and now are shared.  A    *)
(* handler may be dropped at a suspension point.                           *)
(***************************************************************************)
\* a mutant of read_body_buffer: the handlers read into one buffer
read_body_buffer_shared(h) == 1

\* read_body: the buffer of a handler is a Vec of its own (service.rs:106)
read_body_buffer(h) == h

InitConcurrent ==
  /\ config \in Configs /\ config.users = MultiUsers
  /\ config.secret = [i \in 1..SecretLen |-> Ord["1"]]
  /\ now = 1
  /\ pc = [h \in 1..MaxHandlers |-> "idle"]
  /\ request = [h \in 1..MaxHandlers |-> NoRequest]
  /\ data = [h \in 1..MaxHandlers |-> << >>]
  /\ chunks = [h \in 1..MaxHandlers |-> << >>]
  /\ response = [h \in 1..MaxHandlers |-> None]
  /\ upstream = [h \in 1..MaxHandlers |-> << >>]
  /\ note = [h \in 1..MaxHandlers |->
               [config |-> config, started |-> 0, decided |-> 0, reply |-> None]]
  /\ prev = NoPrev
  /\ CodecIdle

\* handle(request, config) is called in handler h, and runs to its first
\* suspension point
HandleAt(h, req) ==
  /\ pc[h] = "idle"
  /\ \E step \in {handle(req, config, now)} :
       /\ request' = [request EXCEPT ![h] = req]
       /\ pc' = [pc EXCEPT ![h] = step.pc]
       /\ response' = [response EXCEPT ![h] = step.response]
       /\ upstream' = [upstream EXCEPT ![h] = step.outbound]
       /\ chunks' = [chunks EXCEPT ![h] = IF step.pc = "read_body" THEN req.body ELSE << >>]
       /\ data' = IF step.pc = "read_body"
                    THEN [data EXCEPT ![read_body_buffer(h)] = << >>] ELSE data
  /\ note' = [note EXCEPT ![h] = [config |-> config, started |-> now,
                                  decided |-> 0, reply |-> None]]
  /\ UNCHANGED << config, now, prev >>
  /\ UNCHANGED codecVars

\* read_body in handler h polls its stream: a chunk, or the end (the bytes
\* read are the body) or an error (the body is empty), and then
\* run_login_page goes on to its response
ReadBodyAt(h) ==
  /\ pc[h] = "read_body"
  /\ IF chunks[h] # << >> /\ Head(chunks[h]).ok
       THEN /\ data' = [data EXCEPT ![read_body_buffer(h)] = @ \o Head(chunks[h]).data]
            /\ chunks' = [chunks EXCEPT ![h] = Tail(@)]
            /\ UNCHANGED << pc, response, note >>
       ELSE /\ \E body \in {read_body(data[read_body_buffer(h)], chunks[h])} :
                 response' = [response EXCEPT ![h] = Some(run_login_page(body, config, now))]
            /\ pc' = [pc EXCEPT ![h] = "done"]
            /\ note' = [note EXCEPT ![h].decided = now]
            /\ chunks' = [chunks EXCEPT ![h] = << >>]
            /\ UNCHANGED data
  /\ UNCHANGED << config, now, request, upstream, prev >>
  /\ UNCHANGED codecVars

\* run_proxy in handler h: the upstream answers, or the call fails
UpstreamReplyAt(h, result) ==
  /\ pc[h] = "upstream"
  /\ \E step \in {run_proxy_await(upstream[h][Len(upstream[h])], result)} :
       /\ response' = [response EXCEPT ![h] = step.response]
       /\ pc' = [pc EXCEPT ![h] = step.pc]
       /\ upstream' = [upstream EXCEPT ![h] = @ \o step.outbound]
  /\ note' = [note EXCEPT ![h].reply = Some(result)]
  /\ UNCHANGED << config, now, request, data, chunks, prev >>
  /\ UNCHANGED codecVars

\* the client of handler h goes away while the handler waits for the body or
\* for the upstream: the handler is dropped where it is
Abort(h) ==
  /\ pc[h] \in {"read_body", "upstream"}
  /\ pc' = [pc EXCEPT ![h] = "aborted"]
  /\ UNCHANGED << config, now, request, data, chunks, response, upstream, note, prev >>
  /\ UNCHANGED codecVars

\* requests: a login in two chunks, a request with a session that ends with
\* the clock at MaxTime, a request with none
NextConcurrent ==
  \/ \E h \in 1..MaxHandlers :
       \E req \in { [method |-> Post, uri |-> [path |-> Root, query |-> None],
                     cookie |-> None,
                     body |-> << Chunk(UserField \o S(<< "&", "p", "a", "s" >>)),
                                 Chunk(S(<< "s", "w", "o", "r", "d", "=" >>) \o Password) >>],
                    [method |-> Get,
                     uri |-> [path |-> S(<< "/", "h", "e", "l", "l", "o" >>), query |-> None],
                     cookie |-> Some(AuthIs \o generate(Token(MaxTime), config.secret)),
                     body |-> << >>],
                    [method |-> Get,
                     uri |-> [path |-> S(<< "/", "h", "e", "l", "l", "o" >>), query |-> None],
                     cookie |-> None, body |-> << >>] } :
         HandleAt(h, req)
  \/ \E h \in 1..MaxHandlers : ReadBodyAt(h)
  \/ \E h \in 1..MaxHandlers : \E result \in UpstreamResults : UpstreamReplyAt(h, result)
  \/ \E h \in 1..MaxHandlers : Abort(h)
  \/ Tick

SpecConcurrent == InitConcurrent /\ [][NextConcurrent]_vars

(***************************************************************************)
(* Properties of the token codec, checked under SpecCodec                  *)
(***************************************************************************)
Verified == verdict.done
Intact == origin.defects = {}
SameSecret == verdict.secret = origin.secret

\* C1: a token made by Token::generate and verified under the secret it was
\* signed with is Ok exactly when its expiration is later than the time of
\* the check; at or after its expiration (the equal case included) the
\* result is ExpirationError.
C1_GenerateThenVerify ==
  (Verified /\ origin.kind = "generated" /\ Intact /\ SameSecret) =>
    /\ (verdict.result = "Ok") <=> (origin.expiration > verdict.time)
    /\ (origin.expiration <= verdict.time) => (verdict.result = "ExpirationError")

\* C1 witness: a generated token verified at the very second it expires
C1_Witness ==
  /\ Verified /\ origin.kind = "generated" /\ Intact /\ SameSecret
  /\ origin.expiration = verdict.time
  /\ verdict.result = "ExpirationError"

\* C2: a token made by Token::generate under one secret and verified under
\* a different secret is a SignatureError, whether or not it has expired.
C2_OtherSecretIsSignatureError ==
  (Verified /\ origin.kind = "generated" /\ Intact /\ ~SameSecret) =>
    verdict.result = "SignatureError"

\* C2 witness: an unexpired generated token verified under another secret
C2_Witness ==
  /\ Verified /\ origin.kind = "generated" /\ Intact /\ ~SameSecret
  /\ origin.expiration > verdict.time
  /\ verdict.result = "SignatureError"

\* the error the order of the checks prescribes, from how the token was made
FirstFailingCheck ==
  IF "nodot" \in origin.defects THEN "FormatError"
  ELSE IF origin.defects \cap {"payload_b64", "signature_b64"} # {} THEN "FormatError"
  ELSE IF "signature_flip" \in origin.defects \/ ~SameSecret THEN "SignatureError"
  ELSE IF origin.class \in {"nonutf8", "nonjson"} THEN "FormatError"
  ELSE IF origin.expiration <= verdict.time THEN "ExpirationError"
  ELSE "Ok"

\* C3: Token::verify reports the first failing check in the order: no
\* period (FormatError), a half that is not base64 (FormatError), a
\* signature that does not match (SignatureError), a payload that is not
\* UTF-8 or not JSON (FormatError), an expiration not after now
\* (ExpirationError).
C3_FirstFailingCheckDecides ==
  (Verified /\ origin.class \in {"token", "nonutf8", "nonjson"}) =>
    verdict.result = FirstFailingCheck

\* C3 witness: a payload that is not JSON, under a signature that does not
\* match, is a SignatureError
C3_Witness ==
  /\ Verified /\ origin.class = "nonjson"
  /\ origin.defects = {"signature_flip"} /\ SameSecret
  /\ verdict.result = "SignatureError"

Handled == pc # "idle"
Answered == pc = "done"

\* a token of the server that had not expired when handle looked at it
HasSession(n) == n.cookie = "token" /\ n.expiration > n.auth_clock.val

\* a proxy_auth cookie that is no token (FormatError), signed under another
\* secret (SignatureError), or expired when handle looked at it
\* (ExpirationError)
FailingCookie(n) ==
  \/ n.cookie \in {"format", "signature"}
  \/ n.cookie = "token" /\ n.expiration <= n.auth_clock.val

NoSession(n) == n.cookie \in {"absent", "not_text", "no_cookie"} \/ FailingCookie(n)

HeadersNamed(resp, name) == {h \in resp.headers : h[1] = name}

LogoutPaths == {S(<< "/", "l", "o", "g", "o", "u", "t" >>),
                S(<< "/", "l", "o", "g", "o", "u", "t", "/" >>)}

\* C5: a request whose proxy_auth cookie fails (FormatError, SignatureError
\* or ExpirationError) gets the response the same request without the
\* cookie gets: the same status, headers and body (a login, whose cookie
\* names the time, compared at the same reading of the clock).
C5_FailedCookieAsAbsent ==
  (prev.some /\ Answered /\ FailingCookie(prev.note)
     /\ note.login_clock = prev.note.login_clock) =>
    response = prev.response

\* C5 witness: a login sent with an expired token and again without it, both
\* answered with the same new session cookie
C5_Witness ==
  /\ prev.some /\ Answered
  /\ prev.note.cookie = "token" /\ prev.note.expiration <= prev.note.auth_clock.val
  /\ note.login_clock.some /\ note.login_clock = prev.note.login_clock
  /\ response.val.status = 303
  /\ response = prev.response

\* C6: a request without a session, of any method, to a path other than "/"
\* and "/proxy:styles.css" is answered 303 with Location "/" and without
\* Set-Cookie, and nothing is sent upstream.
C6_OtherPathsRedirect ==
  (Handled /\ NoSession(note) /\ request.uri.path \notin {Root, StylesPath}) =>
    /\ Answered
    /\ response.val.status = 303
    /\ HeadersNamed(response.val, "Location") = {<< "Location", S(<< "/" >>) >>}
    /\ HeadersNamed(response.val, "Set-Cookie") = {}
    /\ upstream = << >>

\* C6 witness: PUT /logout with a token of another secret is redirected
C6_Witness ==
  /\ Answered /\ note.cookie = "signature"
  /\ request.method = S(<< "P", "U", "T" >>)
  /\ request.uri.path = LogoutPath
  /\ response.val.status = 303
  /\ upstream = << >>

\* what the handler of a request without a session has done
LoginPageRendered ==
  /\ Answered /\ data = << >>
  /\ response.val.status = 200
  /\ response.val.headers = {<< "Content-Type", S(<< "t", "e", "x", "t", "/", "h", "t", "m", "l" >>) >>}
  /\ response.val.body.kind = "login.html" /\ ~response.val.body.wrong_credentials

RECURSIVE BytesOf(_)
BytesOf(stream) == IF stream = << >> THEN << >> ELSE Head(stream).data \o BytesOf(Tail(stream))

\* the body of the request is being read, or was read and decided on
LoginSubmitted ==
  \/ pc = "read_body"
  \/ /\ Answered /\ data = BytesOf(request.body)
     /\ \/ /\ response.val.status = 200 /\ response.val.body.kind = "login.html"
           /\ response.val.body.wrong_credentials = (data # << >>)
        \/ /\ response.val.status = 303 /\ data # << >>
           /\ HeadersNamed(response.val, "Set-Cookie") # {}

StylesheetServed ==
  /\ Answered /\ data = << >>
  /\ response.val.status = 200
  /\ response.val.headers = {<< "Content-Type", S(<< "t", "e", "x", "t", "/", "c", "s", "s" >>) >>}
  /\ response.val.body.kind = "styles.css"

Redirected ==
  /\ Answered /\ data = << >>
  /\ response.val.status = 303
  /\ response.val.headers = {<< "Location", S(<< "/" >>) >>}

\* C7 as claimed: without a session, GET "/" renders the login page, POST
\* "/" runs the login, GET "/proxy:styles.css" serves the stylesheet, and
\* every other method and path is answered 303 to "/".
C7_RoutingByMethodAndPath ==
  (Handled /\ NoSession(note)) =>
    IF request.uri.path = Root /\ request.method = Get THEN LoginPageRendered
    ELSE IF request.uri.path = Root /\ request.method = Post THEN LoginSubmitted
    ELSE IF request.uri.path = StylesPath /\ request.method = Get THEN StylesheetServed
    ELSE Redirected

\* C7 as amended: without a session the route is chosen by the path, and on
\* "/" the method only tells POST from the rest: POST "/" runs the login,
\* every other method on "/" renders the login page, every method on
\* "/proxy:styles.css" serves the stylesheet, and every other path is
\* answered 303 to "/".
C7_RoutingByPath ==
  (Handled /\ NoSession(note)) =>
    IF request.uri.path = Root /\ request.method = Post THEN LoginSubmitted
    ELSE IF request.uri.path = Root THEN LoginPageRendered
    ELSE IF request.uri.path = StylesPath THEN StylesheetServed
    ELSE Redirected

\* C7 witness: PUT "/" without a session is answered with the login page
C7_Witness ==
  /\ Handled /\ NoSession(note)
  /\ request.uri.path = Root /\ request.method = S(<< "P", "U", "T" >>)
  /\ LoginPageRendered

ClearedCookie ==
  S(<< "p", "r", "o", "x", "y", "_", "a", "u", "t", "h", "=", ";", " ",
       "H", "t", "t", "p", "O", "n", "l", "y", ";", " ",
       "P", "a", "t", "h", "=", "/", ";", " ",
       "E", "x", "p", "i", "r", "e", "s", "=",
       "T", "h", "u", ",", " ", "0", "1", " ", "J", "a", "n", " ",
       "1", "9", "7", "0", " ", "0", "0", ":", "0", "0", ":", "0", "0", " ",
       "G", "M", "T" >>)

\* C8: a request with a session, of any method, to "/logout" or "/logout/"
\* is answered 303 with Location "/" and Set-Cookie "proxy_auth=; HttpOnly;
\* Path=/; Expires=Thu, 01 Jan 1970 00:00:00 GMT", and nothing is sent
\* upstream.
C8_Logout ==
  (Handled /\ HasSession(note) /\ request.uri.path \in LogoutPaths) =>
    /\ Answered
    /\ response.val.status = 303
    /\ response.val.headers = {<< "Location", S(<< "/" >>) >>,
                               << "Set-Cookie", ClearedCookie >>}
    /\ upstream = << >>

\* C8 witness: POST /logout/ with a session is answered with the cleared cookie
C8_Witness ==
  /\ Answered /\ HasSession(note)
  /\ request.method = Post
  /\ request.uri.path = S(<< "/", "l", "o", "g", "o", "u", "t", "/" >>)
  /\ << "Set-Cookie", ClearedCookie >> \in response.val.headers

\* the response run_proxy owes the client for the answer of the upstream
ReplyOf(result) ==
  IF result.ok THEN result.response
  ELSE [status |-> 502, headers |-> {},
        body |-> [kind |-> "bytes", wrong_credentials |-> FALSE, bytes |-> << >>]]

\* C9: a request with a session, of any method, to a path other than
\* "/logout" and "/logout/" is sent upstream, and its response is the
\* answer of the upstream; on "/" and "/proxy:styles.css" too, neither the
\* login page, nor the login, nor the stylesheet is served.
C9_Forwarded ==
  (Handled /\ HasSession(note) /\ request.uri.path \notin LogoutPaths) =>
    /\ pc \in {"upstream", "done"}
    /\ data = << >>
    /\ Len(upstream) = 1
    /\ upstream[1].method = request.method
    /\ upstream[1].body = request.body
    /\ Answered => (note.reply.some /\ response.val = ReplyOf(note.reply.val))

\* C9 witness: POST "/" with a session and the fields of a login is answered
\* by the upstream
C9_Witness ==
  /\ Answered /\ HasSession(note)
  /\ request.uri.path = Root /\ request.method = Post /\ request.body # << >>
  /\ response.val.status = 200
  /\ response.val.body.bytes = S(<< "r", "e", "m", "o", "t", "e" >>)

\* C10 as claimed: a request with a session to a path other than "/logout"
\* is never answered with a Set-Cookie header.
C10_NoSetCookie ==
  (Answered /\ HasSession(note) /\ request.uri.path # S(<< "/", "l", "o", "g", "o", "u", "t" >>)) =>
    HeadersNamed(response.val, "Set-Cookie") = {}

\* C10 as amended: a request with a session to a path other than "/logout"
\* and "/logout/" is answered with the Set-Cookie headers of the upstream's
\* response and no other (none when the upstream gave no response).
C10_OnlyUpstreamSetCookie ==
  (Answered /\ HasSession(note) /\ request.uri.path \notin LogoutPaths) =>
    /\ note.reply.some
    /\ HeadersNamed(response.val, "Set-Cookie") =
         IF note.reply.val.ok
           THEN HeadersNamed(note.reply.val.response, "Set-Cookie") ELSE {}

\* C10 witness: the Set-Cookie of the upstream reaches a client with a session
C10_Witness ==
  /\ Answered /\ HasSession(note)
  /\ request.uri.path \notin LogoutPaths
  /\ note.reply.some /\ note.reply.val.ok
  /\ HeadersNamed(response.val, "Set-Cookie") = {<< "Set-Cookie", S(<< "s", "i", "d", "=", "1" >>) >>}

(***************************************************************************)
(* Properties of logins and sessions, checked under SpecSession.  What the *)
(* login form holds and when a session cookie was issued and presented are *)
(* read from how the requests were made (note.form, note.session).         *)
(***************************************************************************)
\* C11 as claimed: a request forwarded for a session of a login as user u
\* carries X-Auth-Username: u, and a request forwarded for a session of a
\* login without a username carries no X-Auth-Username.
C11_UsernameForwarded ==
  (note.cookie = "issued" /\ Len(upstream) = 1) =>
    {h \in upstream[1].headers : h[1] = "X-Auth-Username"} =
      IF note.session.val.user.some
        THEN {<< "X-Auth-Username", note.session.val.user.val >>} ELSE {}

\* the fields of the form are credentials of the table: in multi-user mode
\* the user and its password, in anonymous-password mode the password alone
ValidLogin ==
  /\ note.form.some
  /\ note.form.val.password = Some(S(<< "p", "a", "s", "s", "w", "o", "r", "d" >>))
  /\ \/ config.users = MultiUsers /\ note.form.val.user = Some(S(<< "u", "s", "e", "r" >>))
     \/ config.users = AnonymousUsers /\ note.form.val.user = None

\* the attributes of a Set-Cookie value: the pieces after the first, without
\* the blank that follows each ";"
AttributesOf(set_cookie) ==
  LET pieces == Split(set_cookie, Ord[";"])
  IN  {SliceOf(pieces[i], 2, Len(pieces[i])) : i \in 2..Len(pieces)}

\* the expiration a wire token names in its payload
ExpirationOf(token) ==
  from_json(b64_decode(SliceOf(token, 1, Find(token, Ord["."]) - 1)).bytes).expiration

\* the number a run of decimal digits denotes
RECURSIVE Decimal(_)
Decimal(ds) ==
  IF ds = << >> THEN 0 ELSE 10 * Decimal(SliceOf(ds, 1, Len(ds) - 1)) + ds[Len(ds)] - 48

\* the instant of "Www, DD Mon YYYY HH:MM:SS GMT", in seconds since the epoch
InstantOf(date) ==
  LET d   == Decimal(SliceOf(date, 6, 7))
      m   == CHOOSE i \in 1..12 : MonthNames[i] = SliceOf(date, 9, 11)
      y   == Decimal(SliceOf(date, 13, 16)) - (IF m <= 2 THEN 1 ELSE 0)
      era == y \div 400
      yoe == y - era * 400
      doy == ((153 * (IF m > 2 THEN m - 3 ELSE m + 9) + 2) \div 5) + d - 1
      doe == yoe * 365 + (yoe \div 4) - (yoe \div 100) + doy
  IN  (era * 146097 + doe - 719468) * 86400
        + Decimal(SliceOf(date, 18, 19)) * 3600
        + Decimal(SliceOf(date, 21, 22)) * 60
        + Decimal(SliceOf(date, 24, 25))

\* the Expires attribute among the attributes of a Set-Cookie value
ExpiresOf(set_cookie) ==
  {InstantOf(SliceOf(a, 9, Len(a))) :
     a \in {b \in AttributesOf(set_cookie) :
              Len(b) > 8 /\ SliceOf(b, 1, 8) = S(<< "E", "x", "p", "i", "r", "e", "s", "=" >>)}}

\* C12: a POST "/" without a session whose form holds credentials of the
\* table is answered 303 with Location "/" and one Set-Cookie,
\* proxy_auth=<token> with Path=/ and HttpOnly; the token expires 24 hours
\* (86400 seconds) after the time of the login, and Expires names that
\* instant.
C12_LoginIssuesSession ==
  (Answered /\ ValidLogin) =>
    /\ response.val.status = 303
    /\ HeadersNamed(response.val, "Location") = {<< "Location", S(<< "/" >>) >>}
    /\ Cardinality(HeadersNamed(response.val, "Set-Cookie")) = 1
    /\ \A h \in HeadersNamed(response.val, "Set-Cookie") :
         /\ SliceOf(h[2], 1, 11) = S(<< "p", "r", "o", "x", "y", "_", "a", "u", "t", "h", "=" >>)
         /\ S(<< "P", "a", "t", "h", "=", "/" >>) \in AttributesOf(h[2])
         /\ S(<< "H", "t", "t", "p", "O", "n", "l", "y" >>) \in AttributesOf(h[2])
         /\ ExpirationOf(SliceOf(h[2], 12, Find(h[2], Ord[";"]) - 1))
              = note.login_clock.val + 86400
         /\ ExpiresOf(h[2]) = {note.login_clock.val + 86400}

\* C12 witness: a login in anonymous-password mode at the second reading of
\* the clock is answered with a session cookie
C12_Witness ==
  /\ Answered /\ ValidLogin
  /\ config.users = AnonymousUsers
  /\ note.login_clock = Some(2)
  /\ response.val.status = 303
  /\ \E h \in HeadersNamed(response.val, "Set-Cookie") : ExpiresOf(h[2]) = {86402}

\* the response of the dispatcher to a request without a session, by path
HandledWithoutSession ==
  /\ upstream = << >>
  /\ IF request.uri.path = Root /\ request.method = Post THEN LoginSubmitted
     ELSE IF request.uri.path = Root THEN LoginPageRendered
     ELSE IF request.uri.path = StylesPath THEN StylesheetServed
     ELSE Redirected

\* C13: the cookie of a login at time t, presented at a time before
\* t + 24h, authenticates the request (it is forwarded upstream); presented
\* at t + 24h or later it does not (the request is handled as one without a
\* session).
C13_SessionLifetime ==
  (Handled /\ note.cookie = "issued" /\ request.uri.path \notin LogoutPaths) =>
    IF note.session.val.presented_at < note.session.val.issued_at + 86400
      THEN /\ pc \in {"upstream", "done"}
           /\ Len(upstream) = 1
           /\ Answered => (note.reply.some /\ response.val = ReplyOf(note.reply.val))
      ELSE HandledWithoutSession

\* C13 witness: a cookie presented 24 hours to the second after the login is
\* refused
C13_Witness ==
  /\ Handled /\ note.cookie = "issued"
  /\ note.session.val.presented_at = note.session.val.issued_at + 86400
  /\ request.uri.path # Root
  /\ Redirected

\* a cookie presented a second before the 24 hours are over is accepted
C13_WitnessAccepted ==
  /\ Answered /\ note.cookie = "issued"
  /\ note.session.val.presented_at = note.session.val.issued_at + 86399
  /\ Len(upstream) = 1
  /\ response.val.status = 200

\* C14: a POST "/" without a session whose form holds a password, and
\* credentials that are not of the table (an unknown user, or a wrong
\* password), is answered 200 with the login page, wrong_credentials set,
\* and no Set-Cookie; status and headers do not tell the two apart.
C14_LoginRefused ==
  (Answered /\ note.form.some /\ note.form.val.password.some /\ ~ValidLogin) =>
    /\ response.val.status = 200
    /\ response.val.headers = {<< "Content-Type", S(<< "t", "e", "x", "t", "/", "h", "t", "m", "l" >>) >>}
    /\ response.val.body.kind = "login.html"
    /\ response.val.body.wrong_credentials
    /\ upstream = << >>

\* C14 witness: an unknown user with the password of a known one is refused
C14_Witness ==
  /\ Answered /\ note.form.some /\ config.users = MultiUsers
  /\ note.form.val.user = Some(S(<< "n", "o", "b", "o", "d", "y" >>))
  /\ note.form.val.password = Some(S(<< "p", "a", "s", "s", "w", "o", "r", "d" >>))
  /\ response.val.status = 200 /\ response.val.body.wrong_credentials

\* C15 as claimed: a POST "/" without a session whose form holds no
\* password is answered 200 with the login page and wrong_credentials set,
\* with a username or without.
C15_NoPasswordIsWrong ==
  (Answered /\ note.form.some /\ ~note.form.val.password.some) =>
    /\ response.val.status = 200
    /\ response.val.body.kind = "login.html"
    /\ response.val.body.wrong_credentials

\* C15 as amended: a form without a password is answered 200 with the login
\* page; wrong_credentials is set when the form holds a username, and not
\* set when it holds neither field.
C15_NoPasswordByUsername ==
  (Answered /\ note.form.some /\ ~note.form.val.password.some) =>
    /\ response.val.status = 200
    /\ response.val.body.kind = "login.html"
    /\ response.val.body.wrong_credentials = note.form.val.user.some
    /\ HeadersNamed(response.val, "Set-Cookie") = {}

\* C15 witness: a form with a field that is neither username nor password
\* is answered with the login page, wrong_credentials not set
C15_Witness ==
  /\ Answered /\ note.form.some
  /\ ~note.form.val.password.some /\ ~note.form.val.user.some
  /\ request.body # << >>
  /\ response.val.status = 200 /\ ~response.val.body.wrong_credentials

(***************************************************************************)
(* Properties of the cookie lookup, checked under SpecCookie               *)
(***************************************************************************)
\* the entries of the header that are cookies named proxy_auth, in order
AuthEntries == SelectSeq(note.entries, LAMBDA c : c \in {"good", "failing"})

\* C16: entries of the Cookie header that are no cookies are skipped, and
\* the first cookie named proxy_auth decides: the request is authenticated
\* (forwarded upstream) exactly when there is one and its token is good,
\* whatever proxy_auth cookies follow it.
C16_FirstAuthCookieDecides ==
  (Handled /\ note.cookie = "composed") =>
    IF AuthEntries # << >> /\ Head(AuthEntries) = "good"
      THEN Len(upstream) = 1 /\ pc \in {"upstream", "done"}
      ELSE upstream = << >> /\ Redirected

\* C16 witness: after an entry that is no cookie, a failing proxy_auth
\* followed by a good one is refused
C16_Witness ==
  /\ Handled /\ note.cookie = "composed"
  /\ note.entries = << "unparseable", "failing", "good" >>
  /\ Redirected

\* after an entry that is no cookie, a good proxy_auth is accepted
C16_WitnessAccepted ==
  /\ Handled /\ note.cookie = "composed"
  /\ note.entries = << "unparseable", "good", "failing" >>
  /\ Len(upstream) = 1

(***************************************************************************)
(* Properties of the functions under test, checked under SpecPure          *)
(***************************************************************************)
\* C17: can_login(name, password) is true exactly when the table has an
\* entry under exactly that name and SHA-256(salt ":" password) is the hash
\* the entry stores, which is when the password is the one the entry was
\* made for; without an entry it is false.
C17_CanLogin ==
  (probe.fn = "can_login") =>
    /\ probe.out =
         (/\ probe.in.name \in DOMAIN probe.in.users
          /\ probe.in.users[probe.in.name].password_hash
               = Sha256(probe.in.users[probe.in.name].salt \o << 58 >> \o probe.in.password))
    /\ probe.out =
         (/\ probe.in.name \in DOMAIN probe.in.made
          /\ probe.in.made[probe.in.name].password = probe.in.password)

\* C17 witness: the second user of a table logs in with its own password
C17_Witness ==
  /\ probe.fn = "can_login"
  /\ Cardinality(DOMAIN probe.in.users) = 2
  /\ probe.in.name = Some(S(<< "a", "d", "m", "i", "n" >>))
  /\ probe.in.password = S(<< "w", "r", "o", "n", "g" >>)
  /\ probe.out

\* C18: a table made from a credential list that has an entry without a
\* username has that entry alone; a list of more than one part one of which
\* has an empty username is an error, and makes no table.
C18_AnonymousAlone ==
  (probe.fn = "from_values") =>
    /\ (probe.out.ok /\ [some |-> FALSE, val |-> << >>] \in DOMAIN probe.out.users) =>
         Cardinality(DOMAIN probe.out.users) = 1
    /\ (Len(probe.in.classes) > 1 /\ \E i \in 1..Len(probe.in.classes) :
                                       probe.in.classes[i] = "anonymous") =>
         (~probe.out.ok /\ probe.out.users = << >>)
    /\ probe.out.ok =
         (/\ \A i \in 1..Len(probe.in.classes) : probe.in.classes[i] # "invalid"
          /\ Len(probe.in.classes) > 1 =>
               \A i \in 1..Len(probe.in.classes) : probe.in.classes[i] = "named")

\* C18 witness: a user with a name followed by the user without one is an
\* error
C18_Witness ==
  /\ probe.fn = "from_values"
  /\ probe.in.classes = << "named", "anonymous" >>
  /\ ~probe.out.ok

\* the user without a name, alone, makes a table of one entry
C18_WitnessAlone ==
  /\ probe.fn = "from_values"
  /\ probe.in.classes = << "anonymous" >>
  /\ probe.out.ok /\ DOMAIN probe.out.users = {[some |-> FALSE, val |-> << >>]}

\* the path and query of a URI as it is written: the path, and "?" and the
\* query when it has one
Written(uri) ==
  IF uri.query.some THEN uri.path \o << 63 >> \o uri.query.val ELSE uri.path

\* C19: the rewritten URI is the path of the base, then (unless the local
\* path is "/") the local path, without its leading "/" when the path of
\* the base ends in "/", then "?" and the query when the local URI has one;
\* scheme and authority are those of the base (http without a scheme),
\* never those of the local URI.
C19_RewriteIsComposition ==
  (probe.fn = "transfer_parts") =>
    LET local == probe.in.local
        base  == probe.in.remote
        added == IF local.path = << 47 >> THEN << >>
                 ELSE IF base.path[Len(base.path)] = 47 THEN Tail(local.path)
                 ELSE local.path
    IN  /\ probe.out.path_and_query
             = Written([path |-> base.path \o added, query |-> local.query])
        /\ probe.out.authority = base.authority
        /\ probe.out.scheme = IF base.scheme.some THEN base.scheme.val
                              ELSE << 104, 116, 116, 112 >>

\* C19 witness: a local URI of another scheme and authority, on a base
\* without a scheme whose path ends in "/"
C19_Witness ==
  /\ probe.fn = "transfer_parts"
  /\ probe.in.local.authority.some /\ probe.in.local.query.some
  /\ ~probe.in.remote.scheme.some
  /\ probe.in.remote.path = S(<< "/", "x", "/" >>)
  /\ probe.out.path_and_query
       = S(<< "/", "x", "/", "a", "/", "b", ".", "c", "?", "q", "=", "1", "&", "r", "=", "/" >>)
  /\ probe.out.scheme = S(<< "h", "t", "t", "p" >>)

\* C20: on a base whose path is "/", the path and query of the rewritten URI
\* are the path and query of the local URI.
C20_RootBaseKeepsPathAndQuery ==
  (probe.fn = "transfer_parts" /\ probe.in.remote.path = << 47 >>) =>
    probe.out.path_and_query = Written(probe.in.local)

\* C20 witness: the local URI "/?" with an empty query on the base "/"
C20_Witness ==
  /\ probe.fn = "transfer_parts"
  /\ probe.in.remote.path = S(<< "/" >>)
  /\ probe.in.local.path = S(<< "/" >>) /\ probe.in.local.query = Some(<< >>)
  /\ probe.out.path_and_query = S(<< "/", "?" >>)

\* the path of a path-and-query: what comes before its first "?"
PathOf(path_and_query) ==
  IF 63 \in {path_and_query[i] : i \in 1..Len(path_and_query)}
    THEN SubSeq(path_and_query, 1,
                (CHOOSE i \in 1..Len(path_and_query) :
                   /\ path_and_query[i] = 63
                   /\ \A j \in 1..(i - 1) : path_and_query[j] # 63) - 1)
    ELSE path_and_query

\* the last byte of a path is "/"
Slashed(path) == path # << >> /\ path[Len(path)] = 47

\* C21, as stated: for every base and every local URI whose path ends in
\* "/", the local path "/" on a base without a trailing slash included, the
\* path of the rewritten URI ends in "/".
C21_TrailingSlashAlways ==
  (probe.fn = "transfer_parts" /\ Slashed(probe.in.local.path)) =>
    Slashed(PathOf(probe.out.path_and_query))

\* C21, amended: for every base and every local URI whose path ends in "/"
\* and is not "/" itself, the path of the rewritten URI ends in "/"; for the
\* local path "/" the path of the rewritten URI is the path of the base as it
\* is, with a trailing slash only when the base has one.
C21_TrailingSlashBelowRoot ==
  (probe.fn = "transfer_parts" /\ Slashed(probe.in.local.path)) =>
    IF probe.in.local.path = << 47 >>
      THEN PathOf(probe.out.path_and_query) = probe.in.remote.path
      ELSE Slashed(PathOf(probe.out.path_and_query))

\* C21 witness: the local URI "/a/" with a query that ends in "/", on the
\* base "/x"
C21_Witness ==
  /\ probe.fn = "transfer_parts"
  /\ probe.in.remote.path = S(<< "/", "x" >>)
  /\ probe.in.local.path = S(<< "/", "a", "/" >>)
  /\ probe.in.local.query.some /\ probe.in.local.query.val # << >>
  /\ PathOf(probe.out.path_and_query) = S(<< "/", "x", "/", "a", "/" >>)

\* the other case of C21: the local URI "/" with no query on the base "/x"
C21_WitnessRoot ==
  /\ probe.fn = "transfer_parts"
  /\ probe.in.remote.path = S(<< "/", "x" >>)
  /\ probe.in.local.path = S(<< "/" >>)
  /\ ~probe.in.local.query.some
  /\ probe.out.path_and_query = S(<< "/", "x" >>)

(***************************************************************************)
(* Properties of run_proxy, checked under SpecProxy                        *)
(***************************************************************************)
\* run_proxy was called, with a request and a username
ProxyCalled == probe.fn = "run_proxy" /\ pc \in {"upstream", "done"}

\* the requests sent upstream
Sent == {upstream[i] : i \in 1..Len(upstream)}

\* C22: the request run_proxy sends upstream has the header X-Auth-Username,
\* once and with the username given as its value, if and only if the
\* username is not the empty string; for the empty string it has no such
\* header.
C22_UsernameHeader ==
  ProxyCalled =>
    \A out \in Sent :
      /\ (probe.in.username # << >>) <=> (HeadersNamed(out, "X-Auth-Username") # {})
      /\ \A h \in HeadersNamed(out, "X-Auth-Username") : h[2] = probe.in.username

\* C22 witness: run_proxy was called with the username " ", and its request
\* has the header with that value
C22_Witness ==
  /\ ProxyCalled /\ Sent # {}
  /\ probe.in.username = S(<< " " >>)
  /\ \A out \in Sent : << "X-Auth-Username", S(<< " " >>) >> \in out.headers

\* the other case of C22: run_proxy was called with the empty string, and its
\* request has no header
C22_WitnessEmpty ==
  /\ ProxyCalled /\ Sent # {}
  /\ probe.in.username = << >>
  /\ \A out \in Sent : out.headers = {}

\* C23: the response of run_proxy is the response of the upstream, with its
\* status, headers and body as they are, whatever the status, when the call
\* of the upstream succeeds, and 502 with an empty body when it fails,
\* whatever the failure; before the call is over there is no response.
C23_UpstreamOrBadGateway ==
  ProxyCalled =>
    IF pc = "done"
      THEN /\ note.reply.some /\ response.some
           /\ note.reply.val.ok =>
                /\ response.val.status = note.reply.val.response.status
                /\ response.val.headers = note.reply.val.response.headers
                /\ response.val.body = note.reply.val.response.body
           /\ ~note.reply.val.ok =>
                /\ response.val.status = 502
                /\ response.val.body.kind = "bytes" /\ response.val.body.bytes = << >>
      ELSE ~response.some

\* C23 witness: the upstream answers 404 with a Set-Cookie header, and that is
\* the response
C23_Witness ==
  /\ ProxyCalled /\ pc = "done"
  /\ note.reply.val.ok /\ note.reply.val.response.status = 404
  /\ response.val.status = 404
  /\ \E h \in response.val.headers : h[1] = "Set-Cookie"

\* the other cases of C23: the read of the answer fails, and the response is
\* 502 with an empty body; the upstream answers 502 with a body of its own
C23_WitnessFailed ==
  /\ ProxyCalled /\ pc = "done"
  /\ ~note.reply.val.ok
  /\ "error" \in DOMAIN note.reply.val /\ note.reply.val.error = "read"
  /\ response.val.status = 502 /\ response.val.body.bytes = << >>

C23_WitnessOwn502 ==
  /\ ProxyCalled /\ pc = "done"
  /\ note.reply.val.ok
  /\ response.val.status = 502 /\ response.val.body.bytes # << >>

(***************************************************************************)
(* Properties of the dispatcher and the upstream, checked under Spec       *)
(***************************************************************************)
\* C24: a request is sent upstream only by the handler of a request whose
\* proxy_auth cookie is a token of the server that has not expired when it
\* is handled; the body of a POST "/" without a session is read to its end
\* before there is a response, a successful login or a failed one, and
\* nothing is sent upstream for it at any point.
C24_UpstreamOnlyWithSession ==
  /\ (upstream # << >>) => (Handled /\ HasSession(note))
  /\ (Handled /\ NoSession(note) /\ request.method = Post
        /\ request.uri.path = << 47 >>) =>
       /\ upstream = << >>
       /\ pc \in {"read_body", "done"}
       /\ IF pc = "read_body"
            THEN /\ ~response.some
                 /\ data \o BytesOf(chunks) = BytesOf(request.body)
            ELSE /\ response.some /\ response.val.status \in {200, 303}
                 /\ chunks = << >> /\ data = BytesOf(request.body)

\* C24 witness: a login whose body came in two chunks is answered 303 with a
\* cookie, and nothing was sent upstream
C24_Witness ==
  /\ Answered /\ NoSession(note) /\ request.method = Post
  /\ request.uri.path = S(<< "/" >>)
  /\ Len(request.body) = 2 /\ data = BytesOf(request.body)
  /\ response.val.status = 303
  /\ HeadersNamed(response.val, "Set-Cookie") # {}
  /\ upstream = << >>

\* the other case of C24: half of the body is read, and there is no response
C24_WitnessReading ==
  /\ pc = "read_body" /\ data # << >> /\ chunks # << >>
  /\ ~response.some /\ upstream = << >>

(***************************************************************************)
(* Properties of concurrent handlers, checked under SpecConcurrent         *)
(***************************************************************************)
\* what follows the first suspension point of the handler, when nothing else
\* is handled
AloneAfter(h, step) ==
  IF step.pc = "done" THEN step.response
  ELSE IF step.pc = "read_body"
    THEN Some(run_login_page(BytesOf(request[h].body), note[h].config,
                             note[h].decided))
  ELSE Some(run_proxy_result(note[h].reply.val))

\* the response of handle for the request of handler h when nothing else is
\* handled: with the clock read when the handler began, the clock read when
\* the body was read, and the answer of the upstream the handler got
Alone(h) ==
  AloneAfter(h, handle(request[h], note[h].config, note[h].started))

\* C25: whatever else is handled at the time, and whichever handlers are
\* dropped where they wait, the configuration is the one each handler began
\* with, the response of a handler that has returned is the response of its
\* request handled alone with the same clock readings and the same answer of
\* the upstream, and a handler that has not returned has no response.
C25_HandlersDoNotInterfere ==
  \A h \in 1..MaxHandlers :
    (pc[h] # "idle") =>
      /\ note[h].config = config
      /\ IF pc[h] = "done" THEN response[h] = Alone(h) ELSE ~response[h].some

\* C25 witness: a login whose body came in two chunks has its cookie, another
\* handler that began before it ended is dropped in the middle of its body,
\* a second after the first
C25_Witness ==
  \E h, k \in 1..MaxHandlers :
    /\ h # k
    /\ pc[h] = "done" /\ Len(request[h].body) = 2 /\ response[h].val.status = 303
    /\ pc[k] = "aborted" /\ Len(request[k].body) = 2 /\ Len(chunks[k]) = 1
    /\ note[k].started < note[h].decided

(***************************************************************************)
(* Properties of forwarding, checked under Spec                            *)
(***************************************************************************)
\* C26: a request that is forwarded has one request sent upstream, from when
\* it is forwarded on; once that call is over, answered or failed, the
\* handler has returned and no second request is sent; a request that is
\* not forwarded has none.
C26_OneUpstreamCall ==
  /\ Len(upstream) <= 1
  /\ (Handled /\ HasSession(note) /\ request.uri.path \notin LogoutPaths) <=>
       (Len(upstream) = 1)
  /\ note.reply.some => (pc = "done" /\ Len(upstream) = 1)
  /\ (pc = "upstream") => ~note.reply.some

\* C26 witness: the call of the upstream failed, the response is 502, and one
\* request was sent
C26_Witness ==
  /\ Answered /\ note.reply.some /\ ~note.reply.val.ok
  /\ response.val.status = 502
  /\ Len(upstream) = 1 /\ upstream[1].method = request.method

(***************************************************************************)
(* Properties of the login form, checked under SpecPure                    *)
(***************************************************************************)
\* extract_form_fields was applied to a form of pairs
Extracted == probe.fn = "extract_form_fields"

\* the pairs of the form under the key, among the first k
PairsOf(key, k) == {i \in 1..k : probe.in[i].key = key}

\* C27: can_login is called when the form has a password; it is called with
\* None exactly when the form has no username pair, and with Some of a
\* username of the form when it has one, the empty string as it is.
C27_UsernameAsSent ==
  Extracted =>
    LET n    == Len(probe.in)
        call == probe.out.call
    IN  /\ call.some <=> (PairsOf("password", n) # {})
        /\ call.some =>
             /\ ~call.val.name.some <=> (PairsOf("username", n) = {})
             /\ call.val.name.some =>
                  \E i \in PairsOf("username", n) :
                    call.val.name = [some |-> TRUE, val |-> probe.in[i].value]

\* C27 witness: the only username of the form is empty, and can_login is
\* called with Some of the empty string
C27_Witness ==
  /\ Extracted
  /\ PairsOf("username", Len(probe.in)) # {}
  /\ \A i \in PairsOf("username", Len(probe.in)) : probe.in[i].value = << >>
  /\ probe.out.call.some
  /\ probe.out.call.val.name = [some |-> TRUE, val |-> << >>]

\* the pair at which the scan stops: the first with a username and a password
\* among the pairs up to it, or the last pair
StopsAt ==
  LET n    == Len(probe.in)
      both == {k \in 1..n : PairsOf("username", k) # {} /\ PairsOf("password", k) # {}}
  IN  IF both = {} THEN n ELSE CHOOSE k \in both : \A j \in both : k <= j

\* the value of the last pair under the key up to where the scan stops
LastOf(key) ==
  LET seen == PairsOf(key, StopsAt)
  IN  IF seen = {} THEN [some |-> FALSE, val |-> << >>]
      ELSE [some |-> TRUE,
            val |-> probe.in[CHOOSE i \in seen : \A j \in seen : j <= i].value]

\* C28: the fields are those of the pairs up to the first pair by which both
\* a username and a password were seen: of a key that comes more than once
\* up to there the last value, none for a key that does not come; pairs
\* after that pair and pairs of other keys have no part in the result.
C28_ScanStopsAtBoth ==
  Extracted =>
    /\ probe.out.username = LastOf("username")
    /\ probe.out.password = LastOf("password")

\* C28 witness: a password after the pair at which both were seen is not the
\* password returned
C28_Witness ==
  /\ Extracted
  /\ StopsAt < Len(probe.in)
  /\ probe.in[Len(probe.in)].key = "password"
  /\ probe.out.password.some
  /\ probe.out.password.val # probe.in[Len(probe.in)].value

\* the other case of C28: of two usernames before a password the second is
\* returned
C28_WitnessRepeated ==
  /\ Extracted
  /\ Len(probe.in) = 3 /\ StopsAt = 3
  /\ probe.in[1].key = "username" /\ probe.in[2].key = "username"
  /\ probe.in[1].value # probe.in[2].value
  /\ probe.out.username = [some |-> TRUE, val |-> probe.in[2].value]

(***************************************************************************)
(* Properties of the upstream URL of the configuration, checked under      *)
(* SpecPure                                                                *)
(***************************************************************************)
\* parse_wiki_uri was applied to a URL
WikiUriParsed == probe.fn = "parse_wiki_uri"

\* the URL as written is a URI: an authority with at most one ":"; after a
\* scheme an authority; without a scheme an authority alone, or a path alone
\* with or without a query
WellFormedUrl ==
  /\ probe.in.authority.some =>
       Cardinality({i \in 1..Len(probe.in.authority.val) :
                      probe.in.authority.val[i] = 58}) <= 1
  /\ IF probe.in.scheme.some THEN probe.in.authority.some
     ELSE IF probe.in.authority.some THEN probe.in.path = << >> /\ ~probe.in.query.some
     ELSE probe.in.path # << >>

\* the URL is taken exactly when it is a URI, its scheme is not there or is
\* http, it has an authority and it has no query; a URL that is not taken
\* gives an error and no base
AcceptedWhenClaimed ==
  /\ probe.out.ok <=>
       /\ WellFormedUrl
       /\ probe.in.scheme.some => probe.in.scheme.val = << 104, 116, 116, 112 >>
       /\ probe.in.authority.some
       /\ ~probe.in.query.some
  /\ ~probe.out.ok =>
       /\ probe.out.error # ""
       /\ probe.out.uri = [scheme |-> [some |-> FALSE, val |-> << >>],
                           authority |-> << >>, path |-> << >>]
  /\ probe.out.ok =>
       /\ probe.out.uri.scheme = [some |-> TRUE, val |-> << 104, 116, 116, 112 >>]
       /\ probe.out.uri.authority = probe.in.authority.val

\* C29, as stated: a URL is taken only if it parses, its scheme is not there
\* or is http, it has an authority and no query; the base of a URL that is
\* taken has the scheme http, the authority of the URL and the path of the
\* URL; every other URL gives an error and no base.
C29_SamePath ==
  WikiUriParsed =>
    /\ AcceptedWhenClaimed
    /\ probe.out.ok => probe.out.uri.path = probe.in.path

\* C29, amended: as stated, but the path of the base is the path of the URL
\* when the URL has one, and "/" when it has none.
C29_PathOrRoot ==
  WikiUriParsed =>
    /\ AcceptedWhenClaimed
    /\ probe.out.ok =>
         probe.out.uri.path = IF probe.in.path = << >> THEN << 47 >> ELSE probe.in.path

\* C29 witness: localhost:12345, without a scheme and without a path, gives
\* the base http://localhost:12345/
C29_Witness ==
  /\ WikiUriParsed
  /\ probe.in.text = S(<< "l", "o", "c", "a", "l", "h", "o", "s", "t", ":",
                          "1", "2", "3", "4", "5" >>)
  /\ probe.out.ok
  /\ probe.out.uri.scheme = Some(S(<< "h", "t", "t", "p" >>))
  /\ probe.out.uri.authority = probe.in.text
  /\ probe.out.uri.path = S(<< "/" >>)

\* other cases of C29: a URL with a query is not taken; a URL with a path is
\* taken with its path
C29_WitnessQuery ==
  /\ WikiUriParsed
  /\ probe.in.text = S(<< "h", "t", "t", "p", ":", "/", "/", "h", "/", "?" >>)
  /\ ~probe.out.ok /\ probe.out.error = "URL cannot contain a query"

C29_WitnessPath ==
  /\ WikiUriParsed
  /\ probe.in.text = S(<< "h", "t", "t", "p", ":", "/", "/", "h", "/", "x", "/" >>)
  /\ probe.out.ok /\ probe.out.uri.path = S(<< "/", "x", "/" >>)

(***************************************************************************)
(* Properties of the request sent upstream, checked under SpecProxy        *)
(***************************************************************************)
\* C30: the request sent upstream is made of the rewritten URI, the method
\* and the body of the client's request, and at most the header
\* X-Auth-Username with the username run_proxy was given: it has no Cookie
\* header and none of the headers of the client, so neither the session
\* cookie nor an X-Auth-Username of the client's own is in it.
C30_NoClientHeaderUpstream ==
  ProxyCalled =>
    \A out \in Sent :
      /\ DOMAIN out = {"uri", "method", "headers", "body"}
      /\ out.method = request.method
      /\ out.body = request.body
      /\ out.uri.authority = config.remote_uri.authority
      /\ out.headers \subseteq {<< "X-Auth-Username", probe.in.username >>}
      /\ \A h \in out.headers :
           /\ h \notin request.headers
           /\ h[1] # "Cookie"
           /\ request.cookie.some => h[2] # request.cookie.val

\* C30 witness: a request with a session cookie, an X-Auth-Username of the
\* client's own and a body is sent on for the user "user": the only header
\* upstream is X-Auth-Username: user
C30_Witness ==
  /\ ProxyCalled /\ Len(upstream) = 1
  /\ request.cookie.some
  /\ \E h \in request.headers : h[1] = "X-Auth-Username"
  /\ request.body # << >>
  /\ upstream[1].headers = {<< "X-Auth-Username", S(<< "u", "s", "e", "r" >>) >>}
  /\ upstream[1].body = request.body

(***************************************************************************)
(* Properties of a session after logout, checked under SpecSession         *)
(***************************************************************************)
\* the exchange before was a "/logout" with the cookie of a login, presented
\* before it expired, and was answered with the cookie cleared
LoggedOut ==
  /\ prev.some
  /\ prev.request.uri.path \in LogoutPaths
  /\ prev.note.cookie = "issued"
  /\ prev.note.session.val.presented_at < prev.note.session.val.issued_at + 86400
  /\ prev.response.some /\ prev.response.val.status = 303
  /\ \E h \in HeadersNamed(prev.response.val, "Set-Cookie") :
       SliceOf(h[2], 1, 12) = S(<< "p", "r", "o", "x", "y", "_", "a", "u", "t", "h", "=", ";" >>)

\* C31: a request that presents, after a logout, the cookie the logout was
\* made with, before the token of the cookie expires, is forwarded upstream
\* as a request with a session is: one request upstream, with its method and
\* body, and the answer of the upstream as the response.
C31_LogoutKeepsToken ==
  (Handled /\ LoggedOut /\ note.cookie = "issued"
     /\ note.session.val.presented_at < note.session.val.issued_at + 86400) =>
    /\ request.cookie = prev.request.cookie
    /\ pc \in {"upstream", "done"}
    /\ Len(upstream) = 1
    /\ upstream[1].method = request.method
    /\ upstream[1].body = request.body
    /\ Answered => (note.reply.some /\ response.val = ReplyOf(note.reply.val))

\* C31 witness: a second after the logout, the cookie gets GET "/" answered
\* by the upstream
C31_Witness ==
  /\ Answered /\ LoggedOut /\ note.cookie = "issued"
  /\ note.session.val.presented_at = prev.note.session.val.presented_at + 1
  /\ request.uri.path = S(<< "/" >>)
  /\ Len(upstream) = 1
  /\ note.reply.val.ok /\ response.val.status = 200

\* the token still expires: a day after the login the cookie of the logout is
\* refused
C31_WitnessExpired ==
  /\ Answered /\ LoggedOut /\ note.cookie = "issued"
  /\ note.session.val.presented_at >= note.session.val.issued_at + 86400
  /\ upstream = << >>


(***************************************************************************)
(* Properties of clients without the secret, checked under SpecSession     *)
(***************************************************************************)
\* the exchange before was a login answered with the cookie this request
\* presents, and the request came before a day had passed since
PresentsLoginCookie ==
  /\ prev.note.login_clock.some
  /\ prev.response.some /\ prev.response.val.status = 303
  /\ \E h \in HeadersNamed(prev.response.val, "Set-Cookie") :
       request.cookie = Some(cookie_pair(h[2]))
  /\ note.auth_clock.val < prev.note.login_clock.val + 86400

\* the exchange before was a "/logout" made with the cookie of a login, and
\* this request presents the same cookie before a day has passed since the
\* login
PresentsLogoutCookie ==
  /\ prev.note.cookie = "issued"
  /\ prev.note.session.some
  /\ request.cookie = prev.request.cookie
  /\ note.auth_clock.val < prev.note.session.val.issued_at + 86400

\* C32: whatever clients without the secret send, a request is forwarded
\* upstream only if its cookie is one that a successful login returned in
\* Set-Cookie before, presented before the expiration of its token; where no
\* login succeeded before, nothing is forwarded.
C32_ForwardedOnlyWithIssuedCookie ==
  upstream # << >> =>
    /\ prev.some
    /\ request.cookie.some /\ note.auth_clock.some
    /\ (PresentsLoginCookie \/ PresentsLogoutCookie)

\* C32 witness: the cookie of a login is forwarded with POST "/hello?q=1"
C32_Witness ==
  /\ upstream # << >> /\ prev.some /\ PresentsLoginCookie
  /\ request.method = Post

\* after a login, a cookie with a later expiration put before the signature
\* of the issued token is answered with the redirect to "/"
C32_WitnessTampered ==
  /\ Answered /\ note.cookie = "tampered" /\ prev.some
  /\ upstream = << >>
  /\ response.val.status = 303

\* without any login, a token signed with another secret is not forwarded
C32_WitnessNoLogin ==
  /\ pc = "done" /\ note.cookie = "other_secret" /\ ~prev.some
  /\ upstream = << >>


(***************************************************************************)
(* Properties of the login without usernames, checked under SpecClients    *)
(***************************************************************************)
\* a login form was posted to a server whose credential list is the one
\* entry without a username, and is answered
AnonymousLogin ==
  /\ Answered /\ note.form.some
  /\ None \in DOMAIN config.users

\* C33: the table of the configuration has no entry under the empty username
\* (the entry without a username is under None); where the table is that
\* entry alone, a login form with a username field, an empty one too, is
\* answered 200 without a cookie whatever its password, and a login that is
\* answered 303 had no username field.
C33_UsernameFieldRefused ==
  /\ Some(<< >>) \notin DOMAIN config.users
  /\ AnonymousLogin =>
       /\ DOMAIN config.users = {None}
       /\ note.form.val.user.some =>
            /\ response.val.status = 200
            /\ HeadersNamed(response.val, "Set-Cookie") = {}
            /\ ~note.login_clock.some
       /\ response.val.status = 303 => ~note.form.val.user.some

\* C33 witness: "username=&password=password" arrived whole and is answered
\* with the login page, without a cookie
C33_Witness ==
  /\ AnonymousLogin
  /\ note.form.val.user = Some(<< >>)
  /\ note.form.val.password = Some(Password)
  /\ data = UsernameKey \o S(<< "=", "&" >>) \o PasswordField
  /\ response.val.status = 200
  /\ HeadersNamed(response.val, "Set-Cookie") = {}

\* the same password without a username field logs in
C33_WitnessAbsent ==
  /\ AnonymousLogin
  /\ ~note.form.val.user.some
  /\ note.form.val.password = Some(Password)
  /\ response.val.status = 303
  /\ HeadersNamed(response.val, "Set-Cookie") # {}


(***************************************************************************)
(* Properties of a body that fails to arrive, checked under SpecClients    *)
(***************************************************************************)
\* the bytes of the chunks that arrived before the stream failed
ArrivedOf(stream) ==
  LET bad == {i \in 1..Len(stream) : ~stream[i].ok}
  IN  BytesOf(SubSeq(stream, 1, (CHOOSE i \in bad : \A j \in bad : i <= j) - 1))

\* a POST "/" without a session whose body stream failed at some chunk is
\* answered
FailedLogin ==
  /\ Answered
  /\ request.method = Post /\ request.uri.path = S(<< "/" >>)
  /\ ~request.cookie.some
  /\ \E i \in 1..Len(request.body) : ~request.body[i].ok

\* C34: when the body stream of a POST "/" without a session fails, at its
\* first chunk or a later one, the body is empty whatever had arrived; the
\* answer is 200 with the login page (without the notice of wrong
\* credentials) and without a cookie, also where the chunks that had arrived
\* hold a username and a password of the table.
C34_FailedBodyIsEmpty ==
  FailedLogin =>
    /\ data = << >>
    /\ response.val.status = 200
    /\ response.val.body.kind = "login.html"
    /\ ~response.val.body.wrong_credentials
    /\ HeadersNamed(response.val, "Set-Cookie") = {}
    /\ ~note.login_clock.some
    /\ upstream = << >>

\* C34 witness: "username=user&password=password" had arrived whole, for a
\* table with the user, when the stream failed
C34_Witness ==
  /\ FailedLogin
  /\ ArrivedOf(request.body) = UserField \o S(<< "&" >>) \o PasswordField
  /\ Some(UserName) \in DOMAIN config.users
  /\ response.val.status = 200

\* the stream failed at its first chunk
C34_WitnessFirst ==
  /\ FailedLogin
  /\ ~request.body[1].ok
  /\ response.val.status = 200

====
